---- MODULE Spec2Model ----
(***************************************************************************)
(* Graph storage engine of agent-office: the GraphStorage contract         *)
(* (src/src/storage/mod.rs) and its two backends, InMemoryStorage          *)
(* (src/src/storage/memory.rs) and PostgresStorage                         *)
(* (src/src/storage/postgres.rs).                                          *)
(*                                                                         *)
(* Spec      the storage operations run one at a time on one backend       *)
(* SpecConc  callers of InMemoryStorage interleaving at lock acquisitions  *)
(* SpecSearch search_nodes on the in-process backend                       *)
(***************************************************************************)
EXTENDS Integers, Sequences, FiniteSets, TLC

VARIABLES
    backend,    \* which GraphStorage implementation the store is
    nodes,      \* InMemoryStorage.nodes / table nodes: NodeId -> Node
    edges,      \* InMemoryStorage.edges / table edges: EdgeId -> Edge
    op,         \* the call that ran last: its name and its arguments
    res,        \* what that call returned: Ok(value) or a StorageError
    dropped,    \* history: the edges that call removed from the store
    order,      \* the order in which the nodes HashMap iterates its values
    pc,         \* SpecConc: each caller's position in its operation
    call,       \* SpecConc: each caller's operation and argument
    nodesLock,  \* SpecConc: RwLock of nodes: the readers and the writer
    edgesLock,  \* SpecConc: RwLock of edges: the readers and the writer
    schedules   \* table schedules of ScheduleServiceImpl: id -> Schedule

vars == <<backend, nodes, edges, op, res, dropped, order, pc, call, nodesLock, edgesLock,
         schedules>>

-----------------------------------------------------------------------------
(* Bounds of the model *)

MaxNode == 2
MaxEdge == 2
MaxTime == 1

-----------------------------------------------------------------------------
(* Entity model, src/src/domain/mod.rs *)

NodeId == 1..MaxNode
EdgeId == 1..MaxEdge
Timestamp == 0..MaxTime

NodeTypes == {"agent", "mailbox"}
EdgeTypes == {"owns", "child_of"}

\* Two property maps stand for all of them: the empty map and a non-empty one.
Properties == {"{}", "{name}"}

Node == [id : NodeId, node_type : NodeTypes, properties : Properties,
         created_at : Timestamp, updated_at : Timestamp]

Edge == [id : EdgeId, edge_type : EdgeTypes,
         from_node_id : NodeId, to_node_id : NodeId]

EdgeDirection == {"Outgoing", "Incoming", "Both"}

\* Option<&str> for the edge type filter
NoType == "None"
EdgeTypeFilter == EdgeTypes \cup {NoType}

Backends == {"memory", "postgres"}

-----------------------------------------------------------------------------
(* Results, src/src/storage/mod.rs: Result<T> = Ok(T) | Err(StorageError) *)

Ok(v) == [kind |-> "Ok", value |-> v]
OkUnit == [kind |-> "Ok"]
NodeNotFound(id) == [kind |-> "NodeNotFound", id |-> id]
EdgeNotFound(id) == [kind |-> "EdgeNotFound", id |-> id]
ConstraintViolation == [kind |-> "ConstraintViolation"]
DatabaseError == [kind |-> "DatabaseError"]

\* The outcome of an operation: the store it leaves and what it returns.
Outcome(ns, es, r) == [nodes |-> ns, edges |-> es, res |-> r]

HasKey(m, k) == k \in DOMAIN m
Insert(m, k, v) == [x \in DOMAIN m \cup {k} |-> IF x = k THEN v ELSE m[x]]
Remove(m, k) == [x \in DOMAIN m \ {k} |-> m[x]]
Retain(m, keep(_)) == [x \in {y \in DOMAIN m : keep(m[y])} |-> m[x]]
EmptyMap == [x \in {} |-> x]

-----------------------------------------------------------------------------
(* InMemoryStorage *)

\* Variant of MemCreateNode: the stored copy gets a fresh updated_at.
MemCreateNode_ResetsUpdatedAt(ns, es, node) ==
    IF HasKey(ns, node.id)
    THEN Outcome(ns, es, ConstraintViolation)
    ELSE Outcome(Insert(ns, node.id, [node EXCEPT !.updated_at = node.created_at]),
                 es, Ok(node))

\* A variant without the contains_key check: insert replaces the stored node.
MemCreateNode_Overwrites(ns, es, node) ==
    Outcome(Insert(ns, node.id, node), es, Ok(node))

MemCreateNode(ns, es, node) ==
    IF HasKey(ns, node.id)
    THEN Outcome(ns, es, ConstraintViolation)
    ELSE Outcome(Insert(ns, node.id, node), es, Ok(node))

MemGetNode(ns, es, id) ==
    IF HasKey(ns, id) THEN Outcome(ns, es, Ok(ns[id]))
    ELSE Outcome(ns, es, NodeNotFound(id))

\* Variant of MemUpdateNode: no existence check, the insert acts as an upsert.
MemUpdateNode_Upsert(ns, es, node) ==
    Outcome(Insert(ns, node.id, node), es, Ok(node))

MemUpdateNode(ns, es, node) ==
    IF ~HasKey(ns, node.id)
    THEN Outcome(ns, es, NodeNotFound(node.id))
    ELSE Outcome(Insert(ns, node.id, node), es, Ok(node))

\* Variant of MemDeleteNode: retain looks at the source of an edge only.
MemDeleteNode_OutgoingOnly(ns, es, id) ==
    IF ~HasKey(ns, id)
    THEN Outcome(ns, es, NodeNotFound(id))
    ELSE Outcome(Remove(ns, id),
                 Retain(es, LAMBDA edge : edge.from_node_id # id),
                 OkUnit)

\* Variant of MemDeleteNode: the node is removed, its edges are kept.
MemDeleteNode_NoCascade(ns, es, id) ==
    IF ~HasKey(ns, id)
    THEN Outcome(ns, es, NodeNotFound(id))
    ELSE Outcome(Remove(ns, id), es, OkUnit)

MemDeleteNode(ns, es, id) ==
    IF ~HasKey(ns, id)
    THEN Outcome(ns, es, NodeNotFound(id))
    ELSE Outcome(Remove(ns, id),
                 Retain(es, LAMBDA edge : edge.from_node_id # id /\ edge.to_node_id # id),
                 OkUnit)

\* create_edge, first critical section (nodes.read()): both endpoints exist.
MemValidateEndpoints(ns, edge) ==
    IF ~HasKey(ns, edge.from_node_id) THEN NodeNotFound(edge.from_node_id)
    ELSE IF ~HasKey(ns, edge.to_node_id) THEN NodeNotFound(edge.to_node_id)
    ELSE OkUnit

\* create_edge, second critical section (edges.write()): edges.insert.
MemInsertEdge(es, edge) == Insert(es, edge.id, edge)

MemCreateEdge(ns, es, edge) ==
    IF MemValidateEndpoints(ns, edge).kind # "Ok"
    THEN Outcome(ns, es, MemValidateEndpoints(ns, edge))
    ELSE Outcome(ns, MemInsertEdge(es, edge), Ok(edge))

MemGetEdge(ns, es, id) ==
    IF HasKey(es, id) THEN Outcome(ns, es, Ok(es[id]))
    ELSE Outcome(ns, es, EdgeNotFound(id))

MemDeleteEdge(ns, es, id) ==
    IF ~HasKey(es, id)
    THEN Outcome(ns, es, EdgeNotFound(id))
    ELSE Outcome(ns, Remove(es, id), OkUnit)

\* get_edges_from / get_edges_to return a Vec<Edge> in HashMap order; the
\* model keeps which edges are returned (edge identifiers are distinct).
MemGetEdgesFrom(ns, es, node_id, edge_type) ==
    Outcome(ns, es,
        Ok({es[x] : x \in {y \in DOMAIN es :
                /\ es[y].from_node_id = node_id
                /\ (edge_type = NoType \/ es[y].edge_type = edge_type)}}))

MemGetEdgesTo(ns, es, node_id, edge_type) ==
    Outcome(ns, es,
        Ok({es[x] : x \in {y \in DOMAIN es :
                /\ es[y].to_node_id = node_id
                /\ (edge_type = NoType \/ es[y].edge_type = edge_type)}}))

\* The identifiers one edge pushes to neighbor_ids (none or one).
MemNeighborIds(edge, node_id, edge_type, direction) ==
    LET matches_type == edge_type = NoType \/ edge.edge_type = edge_type
    IN  CASE direction = "Outgoing" /\ edge.from_node_id = node_id /\ matches_type
               -> {edge.to_node_id}
          [] direction = "Incoming" /\ edge.to_node_id = node_id /\ matches_type
               -> {edge.from_node_id}
          [] direction = "Both" /\ matches_type
                /\ (edge.from_node_id = node_id \/ edge.to_node_id = node_id)
               -> {IF edge.from_node_id = node_id
                   THEN edge.to_node_id ELSE edge.from_node_id}
          [] OTHER -> {}

\* get_neighbors returns a Vec<Node> with one entry per matching edge whose
\* neighbour is stored: the model keeps it as a map from that edge to the node.
MemGetNeighbors(ns, es, node_id, edge_type, direction) ==
    LET pushed(x) == MemNeighborIds(es[x], node_id, edge_type, direction)
        kept == {x \in DOMAIN es : \E id \in pushed(x) : HasKey(ns, id)}
    IN  Outcome(ns, es,
            Ok([x \in kept |-> ns[CHOOSE id \in pushed(x) : TRUE]]))

-----------------------------------------------------------------------------
(* InMemoryStorage::search_nodes *)

None == [some |-> FALSE]
Some(v) == [some |-> TRUE, value |-> v]

OrderBy == {"CreatedAt", "UpdatedAt", "Relevance"}
OrderDirection == {"Asc", "Desc"}

\* serde_json::to_string(&node.properties): PropertyValue is an externally
\* tagged enum with snake_case tags. "{name}" is the map name -> String("office").
PropertiesJson(properties) ==
    IF properties = "{}" THEN "{}" ELSE "{\"name\":{\"string\":\"office\"}}"

\* node.properties.get(key), then serde_json::to_string of the value
PropertyJson(properties, key) ==
    IF properties = "{name}" /\ key = "name"
    THEN Some("{\"string\":\"office\"}") ELSE None

\* str::to_lowercase on the texts the model uses
ToLowercase(text) == IF text = "OFFICE" THEN "office" ELSE text

\* str::contains
Contains(text, sub) ==
    \E i \in 1..(Len(text) - Len(sub) + 1) : SubSeq(text, i, i + Len(sub) - 1) = sub

matches_search_query(node, query) ==
    /\ query.node_types = {} \/ node.node_type \in query.node_types
    /\ query.search_text.some =>
          Contains(ToLowercase(PropertiesJson(node.properties)),
                   ToLowercase(query.search_text.value))
    /\ query.created_after.some => ~(node.created_at < query.created_after.value)
    /\ query.created_before.some => ~(node.created_at > query.created_before.value)
    /\ query.updated_after.some => ~(node.updated_at < query.updated_after.value)
    /\ \A i \in DOMAIN query.property_filters :
          LET key == query.property_filters[i][1]
              value == query.property_filters[i][2]
              prop == PropertyJson(node.properties, key)
          IN  /\ prop.some
              /\ ~(prop.value # ("\"" \o value \o "\"") /\ prop.value # value)

\* The comparator of results.sort_by: a sorts strictly before b.
SortsBefore(a, b, query) ==
    LET ka == IF query.order_by = "CreatedAt" THEN a.created_at ELSE a.updated_at
        kb == IF query.order_by = "CreatedAt" THEN b.created_at ELSE b.updated_at
    IN  IF query.order_direction = "Asc" THEN ka < kb ELSE ka > kb

\* slice::sort_by is a stable sort: x goes before the first element that
\* sorts strictly after it, elements taken in their original order.
InsertStable(sorted, x, query) ==
    LET later == {i \in 1..Len(sorted) : SortsBefore(x, sorted[i], query)}
        at == IF later = {} THEN Len(sorted) + 1
              ELSE CHOOSE i \in later : \A j \in later : i <= j
    IN  SubSeq(sorted, 1, at - 1) \o <<x>> \o SubSeq(sorted, at, Len(sorted))

RECURSIVE SortBy(_, _)
SortBy(s, query) ==
    IF s = <<>> THEN <<>>
    ELSE InsertStable(SortBy(SubSeq(s, 1, Len(s) - 1), query), s[Len(s)], query)

\* nodes.values().filter(..): the values in the map's iteration order
RECURSIVE FilterValues(_, _, _)
FilterValues(ns, ord, query) ==
    IF ord = <<>> THEN <<>>
    ELSE LET rest == FilterValues(ns, Tail(ord), query)
         IN  IF matches_search_query(ns[Head(ord)], query)
             THEN <<ns[Head(ord)]>> \o rest ELSE rest

Min(a, b) == IF a < b THEN a ELSE b

\* Variant of SkipTake that takes the first `limit` elements whatever the offset.
SkipTake_NoSkip(s, offset, limit) == SubSeq(s, 1, Min(Len(s), limit))

\* results.into_iter().skip(offset).take(limit)
SkipTake(s, offset, limit) == SubSeq(s, offset + 1, Min(Len(s), offset + limit))

\* Variant of MemSearchNodes that counts the page instead of the matches.
MemSearchNodes_CountsPage(ns, ord, query) ==
    LET results == SortBy(FilterValues(ns, ord, query), query)
        paginated == SkipTake(results, query.offset, query.limit)
    IN  Ok([items |-> paginated,
            total_count |-> Len(paginated),
            returned_count |-> Len(paginated),
            has_more |-> Len(results) > query.offset + query.limit,
            limit |-> query.limit,
            offset |-> query.offset])

MemSearchNodes(ns, ord, query) ==
    LET results == SortBy(FilterValues(ns, ord, query), query)
        paginated == SkipTake(results, query.offset, query.limit)
    IN  Ok([items |-> paginated,
            total_count |-> Len(results),
            returned_count |-> Len(paginated),
            has_more |-> Len(results) > query.offset + query.limit,
            limit |-> query.limit,
            offset |-> query.offset])

-----------------------------------------------------------------------------
(* PostgresStorage: the tables of setup_tables and one statement per call.  *)
(* Every sqlx error is mapped to StorageError::DatabaseError.               *)

\* INSERT INTO nodes: id is the PRIMARY KEY.
PgCreateNode(ns, es, node) ==
    IF HasKey(ns, node.id)
    THEN Outcome(ns, es, DatabaseError)
    ELSE Outcome(Insert(ns, node.id, node), es, Ok(node))

PgGetNode(ns, es, id) ==
    IF HasKey(ns, id) THEN Outcome(ns, es, Ok(ns[id]))
    ELSE Outcome(ns, es, NodeNotFound(id))

\* UPDATE nodes SET node_type, properties, updated_at WHERE id
PgUpdateNode(ns, es, node) ==
    IF ~HasKey(ns, node.id)
    THEN Outcome(ns, es, NodeNotFound(node.id))
    ELSE Outcome(
            Insert(ns, node.id,
                [ns[node.id] EXCEPT !.node_type = node.node_type,
                                    !.properties = node.properties,
                                    !.updated_at = node.updated_at]),
            es, Ok(node))

\* DELETE FROM nodes WHERE id; edges reference nodes ON DELETE CASCADE.
PgDeleteNode(ns, es, id) ==
    IF ~HasKey(ns, id)
    THEN Outcome(ns, es, NodeNotFound(id))
    ELSE Outcome(Remove(ns, id),
                 Retain(es, LAMBDA edge : edge.from_node_id # id /\ edge.to_node_id # id),
                 OkUnit)

\* INSERT INTO edges: id is the PRIMARY KEY, both endpoints are FOREIGN KEYs.
PgCreateEdge(ns, es, edge) ==
    IF \/ HasKey(es, edge.id)
       \/ ~HasKey(ns, edge.from_node_id)
       \/ ~HasKey(ns, edge.to_node_id)
    THEN Outcome(ns, es, DatabaseError)
    ELSE Outcome(ns, Insert(es, edge.id, edge), Ok(edge))

PgGetEdgesFrom(ns, es, node_id, edge_type) ==
    Outcome(ns, es,
        Ok({es[x] : x \in {y \in DOMAIN es :
                /\ es[y].from_node_id = node_id
                /\ (edge_type = NoType \/ es[y].edge_type = edge_type)}}))

PgGetEdgesTo(ns, es, node_id, edge_type) ==
    Outcome(ns, es,
        Ok({es[x] : x \in {y \in DOMAIN es :
                /\ es[y].to_node_id = node_id
                /\ (edge_type = NoType \/ es[y].edge_type = edge_type)}}))

\* Two match statements: the first handles only Outgoing, the second only
\* Incoming; every other direction falls to `_ => {}` in both.
PgGetNeighbors(ns, es, node_id, edge_type, direction) ==
    LET out == IF direction = "Outgoing"
               THEN PgGetEdgesFrom(ns, es, node_id, edge_type).res.value ELSE {}
        inc == IF direction = "Incoming"
               THEN PgGetEdgesTo(ns, es, node_id, edge_type).res.value ELSE {}
        got(id) == PgGetNode(ns, es, id).res
        keptOut == {e \in out : got(e.to_node_id).kind = "Ok"}
        keptInc == {e \in inc : got(e.from_node_id).kind = "Ok"}
    IN  Outcome(ns, es,
            Ok([x \in {e.id : e \in keptOut \cup keptInc} |->
                  IF es[x] \in keptOut
                  THEN got(es[x].to_node_id).value
                  ELSE got(es[x].from_node_id).value]))

\* properties::text of the JSONB column
PgPropertiesText(properties) ==
    IF properties = "{}" THEN "{}" ELSE "{\"name\": {\"string\": \"office\"}}"

\* properties->>'key': the value as text, NULL when the key is absent
PgPropertyText(properties, key) ==
    IF properties = "{name}" /\ key = "name"
    THEN Some("{\"string\": \"office\"}") ELSE None

\* The WHERE clause search_nodes builds.
PgMatchesSearchQuery(node, query) ==
    /\ query.node_types = {} \/ node.node_type \in query.node_types
    /\ query.search_text.some =>
          Contains(ToLowercase(PgPropertiesText(node.properties)),
                   ToLowercase(query.search_text.value))
    /\ query.created_after.some => node.created_at >= query.created_after.value
    /\ query.created_before.some => node.created_at <= query.created_before.value
    /\ query.updated_after.some => node.updated_at >= query.updated_after.value
    /\ \A i \in DOMAIN query.property_filters :
          LET prop == PgPropertyText(node.properties, query.property_filters[i][1])
          IN  prop.some /\ prop.value = query.property_filters[i][2]

\* The rows of nodes that pass the WHERE clause, in the order `rows` in which
\* the executor meets them.
RECURSIVE PgWhere(_, _, _)
PgWhere(ns, rows, query) ==
    IF rows = <<>> THEN <<>>
    ELSE LET rest == PgWhere(ns, Tail(rows), query)
         IN  IF PgMatchesSearchQuery(ns[Head(rows)], query)
             THEN <<ns[Head(rows)]>> \o rest ELSE rest

\* search_nodes: ORDER BY updated_at DESC whatever the query's order_by and
\* order_direction, LIMIT limit + 1 OFFSET offset, then take(limit). Rows
\* with equal updated_at come in the executor's order.
PgSearchNodes(ns, rows, query) ==
    LET ordered == SortBy(PgWhere(ns, rows, query),
                          [order_by |-> "UpdatedAt", order_direction |-> "Desc"])
        fetched == SkipTake(ordered, query.offset, query.limit + 1)
    IN  Ok([items |-> SubSeq(fetched, 1, Min(Len(fetched), query.limit))])

-----------------------------------------------------------------------------
(* The GraphStorage trait: each call dispatches to the configured backend. *)

create_node(b, ns, es, node) ==
    IF b = "memory" THEN MemCreateNode(ns, es, node) ELSE PgCreateNode(ns, es, node)

get_node(b, ns, es, id) ==
    IF b = "memory" THEN MemGetNode(ns, es, id) ELSE PgGetNode(ns, es, id)

update_node(b, ns, es, node) ==
    IF b = "memory" THEN MemUpdateNode(ns, es, node) ELSE PgUpdateNode(ns, es, node)

delete_node(b, ns, es, id) ==
    IF b = "memory" THEN MemDeleteNode(ns, es, id) ELSE PgDeleteNode(ns, es, id)

create_edge(b, ns, es, edge) ==
    IF b = "memory" THEN MemCreateEdge(ns, es, edge) ELSE PgCreateEdge(ns, es, edge)

get_edges_from(b, ns, es, node_id, edge_type) ==
    IF b = "memory" THEN MemGetEdgesFrom(ns, es, node_id, edge_type)
    ELSE PgGetEdgesFrom(ns, es, node_id, edge_type)

get_edges_to(b, ns, es, node_id, edge_type) ==
    IF b = "memory" THEN MemGetEdgesTo(ns, es, node_id, edge_type)
    ELSE PgGetEdgesTo(ns, es, node_id, edge_type)

get_neighbors(b, ns, es, node_id, edge_type, direction) ==
    IF b = "memory" THEN MemGetNeighbors(ns, es, node_id, edge_type, direction)
    ELSE PgGetNeighbors(ns, es, node_id, edge_type, direction)

-----------------------------------------------------------------------------
(* Spec: the operations run one at a time against one backend. *)

Idle == [c \in {} |-> c]
Unlocked == [readers |-> {}, writer |-> {}]

ConcUnused ==
    /\ pc = Idle /\ call = Idle
    /\ nodesLock = Unlocked /\ edgesLock = Unlocked

Init ==
    /\ backend \in Backends
    /\ nodes = EmptyMap
    /\ edges = EmptyMap
    /\ schedules = EmptyMap
    /\ op = [name |-> "new"]
    /\ res = OkUnit
    /\ dropped = {}
    /\ order = <<>>
    /\ ConcUnused

concVars == <<pc, call, nodesLock, edgesLock>>

\* One call: the store becomes what the operation leaves; op and res record
\* which call it was and what it returned.
Apply(o, out) ==
    /\ nodes' = out.nodes
    /\ edges' = out.edges
    /\ res' = out.res
    /\ op' = o
    /\ dropped' = DOMAIN edges \ DOMAIN out.edges
    /\ UNCHANGED <<backend, schedules>>

\* The edges the callers of Spec create: of one type, between any two nodes.
WrittenEdges == {edge \in Edge : edge.edge_type = "owns"}

CreateNodeOf(node) ==
    /\ Apply([name |-> "create_node", id |-> node.id],
             create_node(backend, nodes, edges, node))
    /\ UNCHANGED <<order, concVars>>

CreateNode == \E node \in Node : CreateNodeOf(node)

GetNode ==
    \E id \in NodeId :
        /\ Apply([name |-> "get_node", id |-> id],
                 get_node(backend, nodes, edges, id))
        /\ UNCHANGED <<order, concVars>>

UpdateNodeOf(node) ==
    /\ Apply([name |-> "update_node", id |-> node.id],
             update_node(backend, nodes, edges, node))
    /\ UNCHANGED <<order, concVars>>

UpdateNode == \E node \in Node : UpdateNodeOf(node)

DeleteNode ==
    \E id \in NodeId :
        /\ Apply([name |-> "delete_node", id |-> id],
                 delete_node(backend, nodes, edges, id))
        /\ UNCHANGED <<order, concVars>>

CreateEdgeOf(edge) ==
    /\ Apply([name |-> "create_edge", id |-> edge.id],
             create_edge(backend, nodes, edges, edge))
    /\ UNCHANGED <<order, concVars>>

CreateEdge == \E edge \in WrittenEdges : CreateEdgeOf(edge)

\* get_edge and delete_edge: src/ holds them for InMemoryStorage only.
GetEdge ==
    /\ backend = "memory"
    /\ \E id \in EdgeId :
        Apply([name |-> "get_edge", id |-> id], MemGetEdge(nodes, edges, id))
    /\ UNCHANGED <<order, concVars>>

DeleteEdge ==
    /\ backend = "memory"
    /\ \E id \in EdgeId :
        Apply([name |-> "delete_edge", id |-> id], MemDeleteEdge(nodes, edges, id))
    /\ UNCHANGED <<order, concVars>>

Next ==
    \/ CreateNode
    \/ GetNode
    \/ UpdateNode
    \/ DeleteNode
    \/ CreateEdge
    \/ GetEdge
    \/ DeleteEdge

Spec == Init /\ [][Next]_vars

-----------------------------------------------------------------------------
(* SpecQuery: the store is built by the same write operations, which leave  *)
(* no record here; the edge listings and get_neighbors record op and res.   *)

\* The nodes the callers of SpecQuery create: one payload per identifier.
QueriedNodes ==
    {node \in Node : /\ node.node_type = "agent"
                     /\ node.properties = "{}"
                     /\ node.created_at = node.updated_at
                     /\ node.created_at = MaxTime}

Write(out) == Apply([name |-> "write"], [out EXCEPT !.res = OkUnit])

QCreateNode ==
    \E node \in QueriedNodes :
        /\ Write(create_node(backend, nodes, edges, node))
        /\ UNCHANGED <<order, concVars>>

QDeleteNode ==
    \E id \in NodeId :
        /\ Write(delete_node(backend, nodes, edges, id))
        /\ UNCHANGED <<order, concVars>>

QCreateEdge ==
    \E edge \in Edge :
        /\ Write(create_edge(backend, nodes, edges, edge))
        /\ UNCHANGED <<order, concVars>>

QDeleteEdge ==
    /\ backend = "memory"
    /\ \E id \in EdgeId : Write(MemDeleteEdge(nodes, edges, id))
    /\ UNCHANGED <<order, concVars>>

GetEdgesFrom ==
    \E id \in NodeId, t \in EdgeTypeFilter :
        /\ Apply([name |-> "get_edges_from", id |-> id, edge_type |-> t],
                 get_edges_from(backend, nodes, edges, id, t))
        /\ UNCHANGED <<order, concVars>>

GetEdgesTo ==
    \E id \in NodeId, t \in EdgeTypeFilter :
        /\ Apply([name |-> "get_edges_to", id |-> id, edge_type |-> t],
                 get_edges_to(backend, nodes, edges, id, t))
        /\ UNCHANGED <<order, concVars>>

GetNeighbors ==
    \E id \in NodeId, t \in EdgeTypeFilter, d \in EdgeDirection :
        /\ Apply([name |-> "get_neighbors", id |-> id, edge_type |-> t, direction |-> d],
                 get_neighbors(backend, nodes, edges, id, t, d))
        /\ UNCHANGED <<order, concVars>>

QueryNext ==
    \/ QCreateNode
    \/ QDeleteNode
    \/ QCreateEdge
    \/ QDeleteEdge
    \/ GetEdgesFrom
    \/ GetEdgesTo
    \/ GetNeighbors

SpecQuery == Init /\ [][QueryNext]_vars

-----------------------------------------------------------------------------
(* SpecConc: callers of one InMemoryStorage run concurrently. A caller is   *)
(* suspended only at a lock acquisition (`.await` on read() or write()), so *)
(* a step runs from one acquisition to the next one that may have to wait.  *)

MaxCaller == 2
Caller == 1..MaxCaller

\* tokio::sync::RwLock: any number of readers or one writer.
CanRead(lock) == lock.writer = {}
CanWrite(lock) == lock.writer = {} /\ lock.readers = {}
AddReader(lock, c) == [lock EXCEPT !.readers = @ \cup {c}]
AddWriter(lock, c) == [lock EXCEPT !.writer = @ \cup {c}]
Release(lock, c) == [readers |-> lock.readers \ {c}, writer |-> lock.writer \ {c}]

NoCall == [name |-> "none"]

InitConc ==
    /\ backend = "memory"
    /\ nodes = EmptyMap
    /\ edges = EmptyMap
    /\ schedules = EmptyMap
    /\ op = [name |-> "new"]
    /\ res = OkUnit
    /\ dropped = {}
    /\ order = <<>>
    /\ pc = [c \in Caller |-> "idle"]
    /\ call = [c \in Caller |-> NoCall]
    /\ nodesLock = Unlocked
    /\ edgesLock = Unlocked

\* The call of caller c returns r, leaving the store (ns, es).
Return(c, o, ns, es, r) ==
    /\ Apply([name |-> o.name, id |-> o.id], Outcome(ns, es, r))
    /\ pc' = [pc EXCEPT ![c] = "idle"]
    /\ call' = [call EXCEPT ![c] = NoCall]
    /\ UNCHANGED order

\* create_node: one critical section under nodes.write().
ConcCreateNode(c) ==
    \E node \in QueriedNodes :
        /\ pc[c] = "idle"
        /\ CanWrite(nodesLock)
        /\ LET out == MemCreateNode(nodes, edges, node)
           IN  Return(c, [name |-> "create_node", id |-> node.id],
                      out.nodes, out.edges, out.res)
        /\ UNCHANGED <<nodesLock, edgesLock>>

\* delete_node: nodes.write().await, then edges.write().await.
DeleteNodeLockNodes(c) ==
    \E id \in NodeId :
        /\ pc[c] = "idle"
        /\ CanWrite(nodesLock)
        /\ nodesLock' = AddWriter(nodesLock, c)
        /\ pc' = [pc EXCEPT ![c] = "delete_node:edges.write"]
        /\ call' = [call EXCEPT ![c] = [name |-> "delete_node", id |-> id]]
        /\ UNCHANGED <<backend, schedules, nodes, edges, op, res, dropped, order, edgesLock>>

\* With both locks held: the existence check, retain, remove; the guards drop.
DeleteNodeLockEdges(c) ==
    /\ pc[c] = "delete_node:edges.write"
    /\ CanWrite(edgesLock)
    /\ LET out == MemDeleteNode(nodes, edges, call[c].id)
       IN  Return(c, call[c], out.nodes, out.edges, out.res)
    /\ nodesLock' = Release(nodesLock, c)
    /\ UNCHANGED edgesLock

\* create_edge: nodes.read().await.
CreateEdgeLockNodes(c) ==
    \E edge \in WrittenEdges :
        /\ pc[c] = "idle"
        /\ CanRead(nodesLock)
        /\ nodesLock' = AddReader(nodesLock, c)
        /\ pc' = [pc EXCEPT ![c] = "create_edge:validate"]
        /\ call' = [call EXCEPT ![c] = [name |-> "create_edge", id |-> edge.id, edge |-> edge]]
        /\ UNCHANGED <<backend, schedules, nodes, edges, op, res, dropped, order, edgesLock>>

\* Variant of CreateEdgeKeepsNodesGuard: no drop(nodes), the guard lives to
\* the end of the function.
CreateEdgeKeepsNodesGuard_NoDrop == TRUE

\* Whether create_edge still holds the nodes guard when it goes on to
\* edges.write(): the code drops it first (`drop(nodes)`).
CreateEdgeKeepsNodesGuard == FALSE

\* Under the nodes guard: verify both nodes exist; return the error, or
\* drop(nodes) and go on to edges.write().await.
CreateEdgeValidate(c) ==
    /\ pc[c] = "create_edge:validate"
    /\ LET v == MemValidateEndpoints(nodes, call[c].edge)
       IN  IF v.kind # "Ok"
           THEN /\ Return(c, [name |-> "create_edge", id |-> call[c].id], nodes, edges, v)
                /\ nodesLock' = Release(nodesLock, c)
           ELSE /\ pc' = [pc EXCEPT ![c] = "create_edge:edges.write"]
                /\ nodesLock' = IF CreateEdgeKeepsNodesGuard THEN nodesLock
                                ELSE Release(nodesLock, c)
                /\ UNCHANGED <<backend, schedules, nodes, edges, op, res, dropped, order, call>>
    /\ UNCHANGED edgesLock

\* Under edges.write(): edges.insert; the guards drop at the return.
CreateEdgeInsert(c) ==
    /\ pc[c] = "create_edge:edges.write"
    /\ CanWrite(edgesLock)
    /\ Return(c, [name |-> "create_edge", id |-> call[c].id],
              nodes, MemInsertEdge(edges, call[c].edge), Ok(call[c].edge))
    /\ nodesLock' = Release(nodesLock, c)
    /\ UNCHANGED edgesLock

ConcNext ==
    \E c \in Caller :
        \/ ConcCreateNode(c)
        \/ DeleteNodeLockNodes(c)
        \/ DeleteNodeLockEdges(c)
        \/ CreateEdgeLockNodes(c)
        \/ CreateEdgeValidate(c)
        \/ CreateEdgeInsert(c)

SpecConc == InitConc /\ [][ConcNext]_vars

-----------------------------------------------------------------------------
(* SpecLocks: the callers of SpecConc, and callers of get_neighbors, which  *)
(* takes edges.read().await and then nodes.read().await.                    *)

GetNeighborsLockEdges(c) ==
    \E id \in NodeId, d \in EdgeDirection :
        /\ pc[c] = "idle"
        /\ CanRead(edgesLock)
        /\ edgesLock' = AddReader(edgesLock, c)
        /\ pc' = [pc EXCEPT ![c] = "get_neighbors:nodes.read"]
        /\ call' = [call EXCEPT ![c] = [name |-> "get_neighbors", id |-> id,
                                        direction |-> d]]
        /\ UNCHANGED <<backend, schedules, nodes, edges, op, res, dropped, order, nodesLock>>

\* With both guards held: the neighbours are collected; the guards drop.
GetNeighborsLockNodes(c) ==
    /\ pc[c] = "get_neighbors:nodes.read"
    /\ CanRead(nodesLock)
    /\ Return(c, call[c], nodes, edges,
              MemGetNeighbors(nodes, edges, call[c].id, NoType, call[c].direction).res)
    /\ edgesLock' = Release(edgesLock, c)
    /\ UNCHANGED nodesLock

LocksNext ==
    \E c \in Caller :
        \/ ConcCreateNode(c)
        \/ DeleteNodeLockNodes(c)
        \/ DeleteNodeLockEdges(c)
        \/ CreateEdgeLockNodes(c)
        \/ CreateEdgeValidate(c)
        \/ CreateEdgeInsert(c)
        \/ GetNeighborsLockEdges(c)
        \/ GetNeighborsLockNodes(c)

SpecLocks == InitConc /\ [][LocksNext]_vars

\* A call that has begun is resumed whenever the lock it waits for is free:
\* the runtime polls a task whose lock was released.
Resume(c) ==
    \/ DeleteNodeLockEdges(c)
    \/ CreateEdgeValidate(c)
    \/ CreateEdgeInsert(c)
    \/ GetNeighborsLockNodes(c)

SpecLocksFair == SpecLocks /\ \A c \in Caller : SF_vars(Resume(c))

-----------------------------------------------------------------------------
(* SpecCreate: callers of InMemoryStorage::create_node run concurrently. A  *)
(* call begins, is suspended at nodes.write().await, and runs its critical  *)
(* section when it gets the lock. `order` lists the calls that returned,    *)
(* oldest first: the node passed, the result, and the callers suspended in  *)
(* a call with the same identifier at that time.                            *)

MaxCreates == 3

\* The nodes the callers pass: two payloads per identifier.
CreatedNodes ==
    {node \in Node : /\ node.node_type = "agent"
                     /\ node.created_at = node.updated_at
                     /\ node.created_at = MaxTime}

CreateNodeCall(c) ==
    /\ pc[c] = "idle"
    /\ Len(order) + Cardinality({d \in Caller : pc[d] # "idle"}) < MaxCreates
    /\ \E node \in CreatedNodes :
          call' = [call EXCEPT ![c] = [name |-> "create_node", id |-> node.id,
                                       node |-> node]]
    /\ pc' = [pc EXCEPT ![c] = "create_node:nodes.write"]
    /\ UNCHANGED <<backend, schedules, nodes, edges, dropped, order, op, res, nodesLock, edgesLock>>

CreateNodeLocked(c) ==
    /\ pc[c] = "create_node:nodes.write"
    /\ CanWrite(nodesLock)
    /\ Apply([name |-> "create_node", id |-> call[c].id],
             MemCreateNode(nodes, edges, call[c].node))
    /\ order' = Append(order,
                       [node |-> call[c].node, res |-> res',
                        suspended |-> {d \in Caller \ {c} :
                                          /\ pc[d] = "create_node:nodes.write"
                                          /\ call[d].id = call[c].id}])
    /\ pc' = [pc EXCEPT ![c] = "idle"]
    /\ call' = [call EXCEPT ![c] = NoCall]
    /\ UNCHANGED <<nodesLock, edgesLock>>

CreateNext ==
    \E c \in Caller :
        \/ CreateNodeCall(c)
        \/ CreateNodeLocked(c)

SpecCreate == InitConc /\ [][CreateNext]_vars

-----------------------------------------------------------------------------
(* SpecSearch: search_nodes on the in-process backend. The store is built   *)
(* by create_node, update_node and delete_node; `order` is the order in     *)
(* which nodes.values() iterates, any order after a write and the same      *)
(* order for as long as the map is not written.                             *)

MaxLimit == 2
MaxOffset == 2

IterationOrders(S) ==
    {f \in [1..Cardinality(S) -> S] : \A i, j \in 1..Cardinality(S) : f[i] = f[j] => i = j}

\* The filters of a query: every combination of the fields over small sets.
Filter ==
    [node_types : SUBSET NodeTypes,
     search_text : {None, Some("OFFICE"), Some("memo")},
     created_after : {None} \cup {Some(t) : t \in Timestamp},
     created_before : {None} \cup {Some(t) : t \in Timestamp},
     updated_after : {None} \cup {Some(t) : t \in Timestamp},
     property_filters : {<<>>, <<<<"name", "office">>>>, <<<<"name", "{\"string\":\"office\"}">>>>}]

AnyFilter ==
    [node_types |-> {}, search_text |-> None, created_after |-> None,
     created_before |-> None, updated_after |-> None, property_filters |-> <<>>]

\* The filters of the searches SpecSearch runs.
SearchedFilters == {AnyFilter, [AnyFilter EXCEPT !.node_types = {"agent"}]}

Query(filter, order_by, order_direction, limit, offset) ==
    [node_types |-> filter.node_types, search_text |-> filter.search_text,
     created_after |-> filter.created_after, created_before |-> filter.created_before,
     updated_after |-> filter.updated_after, property_filters |-> filter.property_filters,
     limit |-> limit, offset |-> offset,
     order_by |-> order_by, order_direction |-> order_direction]

InitSearch ==
    /\ backend = "memory"
    /\ nodes = EmptyMap
    /\ edges = EmptyMap
    /\ schedules = EmptyMap
    /\ op = [name |-> "new"]
    /\ res = OkUnit
    /\ dropped = {}
    /\ order = <<>>
    /\ ConcUnused

\* The nodes the callers of SpecSearch store: any type and timestamps.
SearchedNodes == {node \in Node : node.properties = "{}"}

\* A write to nodes: the map holds what the operation leaves and iterates in
\* some order from then on.
WriteNodes(out) ==
    /\ Write(out)
    /\ order' \in IterationOrders(DOMAIN out.nodes)

SCreateNode ==
    \E node \in SearchedNodes :
        /\ WriteNodes(MemCreateNode(nodes, edges, node))
        /\ UNCHANGED concVars

SUpdateNode ==
    \E node \in SearchedNodes :
        /\ WriteNodes(MemUpdateNode(nodes, edges, node))
        /\ UNCHANGED concVars

SDeleteNode ==
    \E id \in NodeId :
        /\ WriteNodes(MemDeleteNode(nodes, edges, id))
        /\ UNCHANGED concVars

SearchNodes ==
    \E filter \in SearchedFilters, by \in OrderBy, dir \in OrderDirection,
       limit \in 1..MaxLimit, offset \in 0..MaxOffset :
        LET query == Query(filter, by, dir, limit, offset)
        IN  /\ op' = [name |-> "search_nodes", query |-> query]
            /\ res' = MemSearchNodes(nodes, order, query)
            /\ dropped' = {}
            /\ UNCHANGED <<backend, schedules, nodes, edges, order, concVars>>

SearchNext ==
    \/ SCreateNode
    \/ SUpdateNode
    \/ SDeleteNode
    \/ SearchNodes

SpecSearch == InitSearch /\ [][SearchNext]_vars

-----------------------------------------------------------------------------
(* SpecSearchPg: search_nodes on the relational backend. `order` is the     *)
(* order in which the executor met the rows in the last search: any order,  *)
(* chosen anew by every search.                                             *)

InitSearchPg ==
    /\ backend = "postgres"
    /\ nodes = EmptyMap
    /\ edges = EmptyMap
    /\ schedules = EmptyMap
    /\ op = [name |-> "new"]
    /\ res = OkUnit
    /\ dropped = {}
    /\ order = <<>>
    /\ ConcUnused

PgSCreateNode ==
    \E node \in SearchedNodes :
        /\ Write(PgCreateNode(nodes, edges, node))
        /\ UNCHANGED <<order, concVars>>

PgSUpdateNode ==
    \E node \in SearchedNodes :
        /\ Write(PgUpdateNode(nodes, edges, node))
        /\ UNCHANGED <<order, concVars>>

PgSDeleteNode ==
    \E id \in NodeId :
        /\ Write(PgDeleteNode(nodes, edges, id))
        /\ UNCHANGED <<order, concVars>>

PgSearch ==
    \E filter \in SearchedFilters, by \in OrderBy, dir \in OrderDirection,
       limit \in 1..MaxLimit, offset \in 0..MaxOffset,
       rows \in IterationOrders(DOMAIN nodes) :
        LET query == Query(filter, by, dir, limit, offset)
        IN  /\ op' = [name |-> "search_nodes", query |-> query]
            /\ res' = PgSearchNodes(nodes, rows, query)
            /\ order' = rows
            /\ dropped' = {}
            /\ UNCHANGED <<backend, schedules, nodes, edges, concVars>>

SearchPgNext ==
    \/ PgSCreateNode
    \/ PgSUpdateNode
    \/ PgSDeleteNode
    \/ PgSearch

SpecSearchPg == InitSearchPg /\ [][SearchPgNext]_vars

-----------------------------------------------------------------------------
(* SpecPair: one sequence of calls applied to an in-process store and to a  *)
(* relational store, both empty at first. nodes, edges and res hold one     *)
(* value per backend.                                                       *)

InitPair ==
    /\ backend = "both"
    /\ nodes = [b \in Backends |-> EmptyMap]
    /\ edges = [b \in Backends |-> EmptyMap]
    /\ schedules = EmptyMap
    /\ op = [name |-> "new"]
    /\ res = [b \in Backends |-> OkUnit]
    /\ dropped = {}
    /\ order = <<>>
    /\ ConcUnused

\* The same call o made on each backend: out[b] is what it leaves and returns.
PairApply(o, out) ==
    /\ nodes' = [b \in Backends |-> out[b].nodes]
    /\ edges' = [b \in Backends |-> out[b].edges]
    /\ res' = [b \in Backends |-> out[b].res]
    /\ op' = o
    /\ UNCHANGED <<backend, schedules, dropped>>

PairCreateNode ==
    \E node \in QueriedNodes :
        /\ PairApply([name |-> "create_node", id |-> node.id],
                     [b \in Backends |-> create_node(b, nodes[b], edges[b], node)])
        /\ UNCHANGED <<order, concVars>>

PairGetNode ==
    \E id \in NodeId :
        /\ PairApply([name |-> "get_node", id |-> id],
                     [b \in Backends |-> get_node(b, nodes[b], edges[b], id)])
        /\ UNCHANGED <<order, concVars>>

PairUpdateNode ==
    \E node \in QueriedNodes :
        /\ PairApply([name |-> "update_node", id |-> node.id],
                     [b \in Backends |-> update_node(b, nodes[b], edges[b], node)])
        /\ UNCHANGED <<order, concVars>>

PairDeleteNode ==
    \E id \in NodeId :
        /\ PairApply([name |-> "delete_node", id |-> id],
                     [b \in Backends |-> delete_node(b, nodes[b], edges[b], id)])
        /\ UNCHANGED <<order, concVars>>

PairCreateEdge ==
    \E edge \in WrittenEdges :
        /\ PairApply([name |-> "create_edge", id |-> edge.id],
                     [b \in Backends |-> create_edge(b, nodes[b], edges[b], edge)])
        /\ UNCHANGED <<order, concVars>>

PairGetEdgesFrom ==
    \E id \in NodeId :
        /\ PairApply([name |-> "get_edges_from", id |-> id],
                     [b \in Backends |-> get_edges_from(b, nodes[b], edges[b], id, NoType)])
        /\ UNCHANGED <<order, concVars>>

PairGetEdgesTo ==
    \E id \in NodeId :
        /\ PairApply([name |-> "get_edges_to", id |-> id],
                     [b \in Backends |-> get_edges_to(b, nodes[b], edges[b], id, NoType)])
        /\ UNCHANGED <<order, concVars>>

PairGetNeighbors ==
    \E id \in NodeId, direction \in EdgeDirection :
        /\ PairApply([name |-> "get_neighbors", id |-> id, direction |-> direction],
                     [b \in Backends |->
                         get_neighbors(b, nodes[b], edges[b], id, NoType, direction)])
        /\ UNCHANGED <<order, concVars>>

PairNext ==
    \/ PairCreateNode
    \/ PairGetNode
    \/ PairUpdateNode
    \/ PairDeleteNode
    \/ PairCreateEdge
    \/ PairGetEdgesFrom
    \/ PairGetEdgesTo
    \/ PairGetNeighbors

SpecPair == InitPair /\ [][PairNext]_vars

-----------------------------------------------------------------------------
(* LuhmannId: the hierarchical address of a note. A text is a sequence of   *)
(* characters. A u32 is held as two 16-bit limbs, hi * Limb + lo, so that   *)
(* the whole range of the type is there, u32::MAX included.                 *)

MaxLen == 3
MaxSteps == 2

Limb == 65536

DigitChars == <<"0", "1", "2", "3", "4", "5", "6", "7", "8", "9">>
LowerChars ==
    <<"a", "b", "c", "d", "e", "f", "g", "h", "i", "j", "k", "l", "m",
      "n", "o", "p", "q", "r", "s", "t", "u", "v", "w", "x", "y", "z">>
UpperChars ==
    <<"A", "B", "C", "D", "E", "F", "G", "H", "I", "J", "K", "L", "M",
      "N", "O", "P", "Q", "R", "S", "T", "U", "V", "W", "X", "Y", "Z">>

Range(seq) == {seq[i] : i \in DOMAIN seq}
IndexOf(seq, c) == CHOOSE i \in DOMAIN seq : seq[i] = c

is_ascii_digit(c) == c \in Range(DigitChars)
is_ascii_alphabetic(c) == c \in Range(LowerChars) \cup Range(UpperChars)
to_ascii_lowercase(c) ==
    IF c \in Range(UpperChars) THEN LowerChars[IndexOf(UpperChars, c)] ELSE c

\* `c as u8` and u8 -> char, for the lowercase letters parse stores and the
\* character after z.
AsU8(c) == 96 + IndexOf(LowerChars, c)
FromU8(u) == IF u <= 122 THEN LowerChars[u - 96] ELSE "{"

U32(hi, lo) == [hi |-> hi, lo |-> lo]
U32Max == U32(Limb - 1, Limb - 1)
U32Less(a, b) == a.hi < b.hi \/ (a.hi = b.hi /\ a.lo < b.lo)

\* str::parse::<u32> on a run of ASCII digits: the value, or Err once the
\* value passes u32::MAX.
RECURSIVE ParseDigits(_, _)
ParseDigits(digits, acc) ==
    IF digits = <<>> THEN [ok |-> TRUE, value |-> acc]
    ELSE LET t == acc.lo * 10 + (IndexOf(DigitChars, Head(digits)) - 1)
             hi == acc.hi * 10 + (t \div Limb)
         IN  IF hi >= Limb THEN [ok |-> FALSE]
             ELSE ParseDigits(Tail(digits), U32(hi, t % Limb))

ParseU32(digits) == ParseDigits(digits, U32(0, 0))

\* Display for u32: the decimal digits, most significant first.
Div10(n) == U32(n.hi \div 10, ((n.hi % 10) * Limb + n.lo) \div 10)
Mod10(n) == ((n.hi % 10) * Limb + n.lo) % 10

RECURSIVE DisplayU32(_)
DisplayU32(n) ==
    IF n.hi = 0 /\ n.lo < 10 THEN <<DigitChars[n.lo + 1]>>
    ELSE DisplayU32(Div10(n)) \o <<DigitChars[Mod10(n) + 1]>>

Number(n) == [kind |-> "Number", n |-> n]
Letter(c) == [kind |-> "Letter", c |-> c]
LuhmannId(parts) == [parts |-> parts]

\* A call that panicked.
Panic == [some |-> FALSE, panicked |-> TRUE]

\* The index after the run of digits that starts at i.
DigitRunEnd(s, i) ==
    LET ends == {j \in i..Len(s) : ~is_ascii_digit(s[j])}
    IN  IF ends = {} THEN Len(s) + 1 ELSE CHOOSE j \in ends : \A k \in ends : j <= k

\* The while loop of parse from character i on, parts being the parts so far.
RECURSIVE ParseFrom(_, _, _)
ParseFrom(s, i, parts) ==
    IF i > Len(s) THEN parts
    ELSE IF is_ascii_digit(s[i])
         THEN LET j == DigitRunEnd(s, i)
                  n == ParseU32(SubSeq(s, i, j - 1))
              IN  ParseFrom(s, j, IF n.ok THEN Append(parts, Number(n.value)) ELSE parts)
         ELSE IF is_ascii_alphabetic(s[i])
              THEN ParseFrom(s, i + 1, Append(parts, Letter(to_ascii_lowercase(s[i]))))
              ELSE ParseFrom(s, i + 1, parts)

parse(s) ==
    LET parts == ParseFrom(s, 1, <<>>)
    IN  IF parts = <<>> THEN None ELSE Some(LuhmannId(parts))

Last(seq) == seq[Len(seq)]
DropLast(seq) == SubSeq(seq, 1, Len(seq) - 1)

\* Variant of parent that is none for an id of two parts as well.
parent_NoneBelowThree(id) ==
    IF Len(id.parts) <= 2 THEN None ELSE Some(LuhmannId(DropLast(id.parts)))

parent(id) ==
    IF Len(id.parts) <= 1 THEN None ELSE Some(LuhmannId(DropLast(id.parts)))

\* n + 1 on a u32: past u32::MAX the call panics in a build with overflow
\* checks and wraps to 0 in a build without.
next_sibling(id, overflow_checks) ==
    IF id.parts = <<>> THEN None
    ELSE LET last == Last(id.parts)
             rest == DropLast(id.parts)
         IN  IF last.kind = "Number"
             THEN IF last.n = U32Max
                  THEN IF overflow_checks THEN Panic
                       ELSE Some(LuhmannId(Append(rest, Number(U32(0, 0)))))
                  ELSE Some(LuhmannId(Append(rest, Number(
                           IF last.n.lo = Limb - 1 THEN U32(last.n.hi + 1, 0)
                           ELSE U32(last.n.hi, last.n.lo + 1)))))
             ELSE LET next_char == AsU8(last.c) + 1
                  IN  IF next_char <= AsU8("z")
                      THEN Some(LuhmannId(Append(rest, Letter(FromU8(next_char)))))
                      ELSE None

\* Variant of first_child that appends the letter a whatever the last part.
first_child_AlwaysLetter(id) == LuhmannId(Append(id.parts, Letter("a")))

first_child(id) ==
    IF id.parts # <<>> /\ Last(id.parts).kind = "Number"
    THEN LuhmannId(Append(id.parts, Letter("a")))
    ELSE LuhmannId(Append(id.parts, Number(U32(0, 1))))

level(id) == Len(id.parts)

\* Variant of is_descendant_of that lets an id of the same length through.
is_descendant_of_NotStrict(id, other) ==
    IF Len(other.parts) > Len(id.parts) THEN FALSE
    ELSE SubSeq(id.parts, 1, Len(other.parts)) = other.parts

is_descendant_of(id, other) ==
    IF Len(other.parts) >= Len(id.parts) THEN FALSE
    ELSE SubSeq(id.parts, 1, Len(other.parts)) = other.parts

\* impl Display for LuhmannId
RECURSIVE fmt(_)
fmt(id) ==
    IF id.parts = <<>> THEN <<>>
    ELSE LET part == Head(id.parts)
         IN  (IF part.kind = "Number" THEN DisplayU32(part.n) ELSE <<part.c>>)
                 \o fmt(LuhmannId(Tail(id.parts)))

\* derive(PartialOrd, Ord): Number before Letter, then by value; the parts
\* lexicographically.
PartLess(a, b) ==
    IF a.kind # b.kind THEN a.kind = "Number"
    ELSE IF a.kind = "Number" THEN U32Less(a.n, b.n)
         ELSE AsU8(a.c) < AsU8(b.c)

RECURSIVE PartsLess(_, _)
PartsLess(a, b) ==
    IF b = <<>> THEN FALSE
    ELSE IF a = <<>> THEN TRUE
         ELSE IF Head(a) = Head(b) THEN PartsLess(Tail(a), Tail(b))
              ELSE PartLess(Head(a), Head(b))

IdLess(a, b) == PartsLess(a.parts, b.parts)

-----------------------------------------------------------------------------
(* SpecLuhmann: a text is parsed first, and the id a call returned is the   *)
(* receiver of the next call, MaxSteps calls deep. op records the call and  *)
(* res what it returned.                                                    *)

Alphabet == {"0", "1", "2", "a", "B", "z", " "}

\* The texts with a run of digits at and just past u32::MAX.
LongTexts ==
    {<<"4", "2", "9", "4", "9", "6", "7", "2", "9", "5">>,
     <<"4", "2", "9", "4", "9", "6", "7", "2", "9", "6">>}

Texts == UNION {[1..n -> Alphabet] : n \in 0..MaxLen} \cup LongTexts

InitLuhmann ==
    /\ backend = "none"
    /\ nodes = EmptyMap
    /\ edges = EmptyMap
    /\ schedules = EmptyMap
    /\ op = [name |-> "new"]
    /\ res = None
    /\ dropped = {}
    /\ order = <<>>
    /\ ConcUnused

storeVars == <<backend, schedules, nodes, edges, dropped, order>>

\* The last call returned an id.
Holds ==
    \/ op.name = "first_child"
    \/ op.name \in {"parse", "parent", "next_sibling"} /\ res.some

HeldId == IF op.name = "first_child" THEN res ELSE res.value

CanStep == Holds /\ op.steps < MaxSteps

Parse ==
    \E s \in Texts :
        /\ op.name = "new"
        /\ op' = [name |-> "parse", text |-> s, steps |-> 0]
        /\ res' = parse(s)
        /\ UNCHANGED <<storeVars, concVars>>

Parent ==
    /\ CanStep
    /\ op' = [name |-> "parent", id |-> HeldId, steps |-> op.steps + 1]
    /\ res' = parent(HeldId)
    /\ UNCHANGED <<storeVars, concVars>>

NextSibling ==
    \E overflow_checks \in BOOLEAN :
        /\ CanStep
        /\ op' = [name |-> "next_sibling", id |-> HeldId, steps |-> op.steps + 1]
        /\ res' = next_sibling(HeldId, overflow_checks)
        /\ UNCHANGED <<storeVars, concVars>>

FirstChild ==
    /\ CanStep
    /\ op' = [name |-> "first_child", id |-> HeldId, steps |-> op.steps + 1]
    /\ res' = first_child(HeldId)
    /\ UNCHANGED <<storeVars, concVars>>

ToText ==
    /\ Holds
    /\ op' = [name |-> "to_string", id |-> HeldId, steps |-> op.steps]
    /\ res' = fmt(HeldId)
    /\ UNCHANGED <<storeVars, concVars>>

\* The ids an id is compared with: its own prefixes, itself, its first
\* child, and the ids of the texts of one character.
ComparedIds(id) ==
    {LuhmannId(SubSeq(id.parts, 1, n)) : n \in 1..Len(id.parts)}
        \cup {first_child(id)}
        \cup {parse(s).value : s \in {t \in [1..1 -> Alphabet] : parse(t).some}}

IsDescendantOf ==
    /\ Holds
    /\ \E other \in ComparedIds(HeldId) :
          /\ op' = [name |-> "is_descendant_of", id |-> HeldId, other |-> other,
                    steps |-> op.steps]
          /\ res' = is_descendant_of(HeldId, other)
    /\ UNCHANGED <<storeVars, concVars>>

LuhmannNext ==
    \/ Parse
    \/ Parent
    \/ NextSibling
    \/ FirstChild
    \/ ToText
    \/ IsDescendantOf

SpecLuhmann == InitLuhmann /\ [][LuhmannNext]_vars

-----------------------------------------------------------------------------
(* KnowledgeBaseServiceImpl, src/src/services/kb/mod.rs: notes addressed by *)
(* LuhmannId, stored as nodes of the graph.                                 *)

MaxNotes == 4

\* Uuid::new_v5 of the namespace and the text: one identifier per text.
string_to_node_id(s) == [uuid5 |-> s]

luhmann_to_node_id(luhmann_id) == string_to_node_id(fmt(luhmann_id))

\* "__kb_counter__"
CounterName == <<"_", "_", "k", "b", "_", "c", "o", "u", "n", "t", "e", "r", "_", "_">>

\* let x = value; body: the value is computed once and named in the body.
With(value, body(_)) == body(value)

\* KbError
NoteNotFound(id) == [kind |-> "NoteNotFound", id |-> id]
NoteAlreadyExists(id) == [kind |-> "NoteAlreadyExists", id |-> id]
InvalidLuhmannId(text) == [kind |-> "InvalidLuhmannId", text |-> text]
Storage(e) == [kind |-> "Storage", error |-> e]
SelfLink == [kind |-> "SelfLink"]

\* Utc::now() in the knowledge base, which orders nothing by time
\* (list_notes sorts by id): one reading stands for all.
KbClock == {MaxTime}

\* Note: the address is the note's id.
Note_new(luhmann_id, title, content) ==
    [id |-> luhmann_id, title |-> title, content |-> content]

Note_to_node(note, now) ==
    [id |-> luhmann_to_node_id(note.id), node_type |-> "note",
     properties |-> [luhmann_id |-> fmt(note.id), title |-> note.title,
                     content |-> note.content],
     created_at |-> now, updated_at |-> now]

Note_from_node(node) ==
    IF node.node_type # "note" THEN None
    ELSE With(parse(node.properties.luhmann_id), LAMBDA id :
            IF ~id.some THEN None
            ELSE Some(Note_new(id.value, node.properties.title, node.properties.content)))

\* NoteCounter: the persisted counter of top-level addresses.
NoteCounter_new == [next_main_id |-> U32(0, 1)]

NoteCounter_to_node(counter, now) ==
    [id |-> string_to_node_id(CounterName), node_type |-> "note_counter",
     properties |-> [next_main_id |-> counter.next_main_id],
     created_at |-> now, updated_at |-> now]

NoteCounter_from_node(node) ==
    IF node.node_type # "note_counter" THEN None
    ELSE Some([next_main_id |-> node.properties.next_main_id])

\* The id [Number(next_main_id)] and the counter after next_main_id += 1.
next_main_topic_id(counter) ==
    LET n == counter.next_main_id
    IN  [id |-> LuhmannId(<<Number(n)>>),
         counter |-> [next_main_id |-> IF n.lo = Limb - 1 THEN U32(n.hi + 1, 0)
                                       ELSE U32(n.hi, n.lo + 1)]]

\* Edge::new: a fresh random identifier.
Edge_new(es, edge_type, from_node_id, to_node_id) ==
    [id |-> Cardinality(DOMAIN es) + 1, edge_type |-> edge_type,
     from_node_id |-> from_node_id, to_node_id |-> to_node_id]

get_or_init_counter(b, ns, es, now) ==
    With(get_node(b, ns, es, string_to_node_id(CounterName)).res, LAMBDA got :
    IF got.kind = "Ok"
    THEN With(NoteCounter_from_node(got.value), LAMBDA counter :
            IF counter.some THEN Outcome(ns, es, Ok(counter.value))
            ELSE Outcome(ns, es, Storage(ConstraintViolation)))
    ELSE IF got.kind = "NodeNotFound"
    THEN With(create_node(b, ns, es, NoteCounter_to_node(NoteCounter_new, now)), LAMBDA out :
            IF out.res.kind = "Ok"
            THEN Outcome(out.nodes, out.edges, Ok(NoteCounter_new))
            ELSE Outcome(out.nodes, out.edges, Storage(out.res)))
    ELSE Outcome(ns, es, Storage(got)))

update_counter(b, ns, es, counter, now) ==
    With(update_node(b, ns, es, NoteCounter_to_node(counter, now)), LAMBDA out :
    IF out.res.kind = "Ok" THEN Outcome(out.nodes, out.edges, OkUnit)
    ELSE Outcome(out.nodes, out.edges, Storage(out.res)))

next_main_id(b, ns, es, now) ==
    With(get_or_init_counter(b, ns, es, now), LAMBDA counter :
    IF counter.res.kind # "Ok" THEN counter
    ELSE With(next_main_topic_id(counter.res.value), LAMBDA next :
         With(update_counter(b, counter.nodes, counter.edges, next.counter, now), LAMBDA out :
            IF out.res.kind # "Ok" THEN out
            ELSE Outcome(out.nodes, out.edges, Ok(next.id)))))

\* notes.sort_by(|a, b| a.id.cmp(&b.id)), a stable sort.
RECURSIVE SortById(_)
SortById(notes) ==
    IF notes = <<>> THEN <<>>
    ELSE With(SortById(SubSeq(notes, 1, Len(notes) - 1)), LAMBDA sorted :
         With({i \in 1..Len(sorted) : IdLess(notes[Len(notes)].id, sorted[i].id)},
              LAMBDA later :
         With(IF later = {} THEN Len(sorted) + 1
              ELSE CHOOSE i \in later : \A j \in later : i <= j, LAMBDA at :
            SubSeq(sorted, 1, at - 1) \o <<notes[Len(notes)]>>
                \o SubSeq(sorted, at, Len(sorted)))))

\* results.items.into_iter().filter_map(Note::from_node)
RECURSIVE FilterMapNotes(_)
FilterMapNotes(items) ==
    IF items = <<>> THEN <<>>
    ELSE With(Note_from_node(Head(items)), LAMBDA note :
            (IF note.some THEN <<note.value>> ELSE <<>>) \o FilterMapNotes(Tail(items)))

\* Variant of list_notes that returns the notes as search_nodes gave them.
list_notes_Unsorted(b, ns, ord) ==
    LET query == Query([AnyFilter EXCEPT !.node_types = {"note"}],
                       "UpdatedAt", "Desc", 10000, 0)
        results == IF b = "memory" THEN MemSearchNodes(ns, ord, query)
                   ELSE PgSearchNodes(ns, ord, query)
    IN  FilterMapNotes(results.value.items)

\* list_notes: search_nodes for the nodes of type "note", at most 10000 of
\* them, then the sort. ord is the order in which the store iterates.
list_notes(b, ns, ord) ==
    LET query == Query([AnyFilter EXCEPT !.node_types = {"note"}],
                       "UpdatedAt", "Desc", 10000, 0)
        results == IF b = "memory" THEN MemSearchNodes(ns, ord, query)
                   ELSE PgSearchNodes(ns, ord, query)
    IN  SortById(FilterMapNotes(results.value.items))

\* children.sort(); children.last()
Greatest(ids) == CHOOSE x \in ids : \A y \in ids : y = x \/ IdLess(y, x)

\* next_child_id. No id of the model ends in the number u32::MAX, so the
\* addition in next_sibling does not overflow.
next_child_id(b, ns, ord, parent_id) ==
    With(list_notes(b, ns, ord), LAMBDA all_notes :
    With({all_notes[i].id : i \in
             {j \in DOMAIN all_notes : parent(all_notes[j].id) = Some(parent_id)}},
         LAMBDA children :
    IF children = {} THEN first_child(parent_id)
    ELSE With(Greatest(children), LAMBDA last :
         With(next_sibling(last, TRUE), LAMBDA next :
            IF next.some THEN next.value ELSE first_child(last)))))

create_note(b, ns, es, title, content, now) ==
    With(next_main_id(b, ns, es, now), LAMBDA luhmann_id :
    IF luhmann_id.res.kind # "Ok" THEN luhmann_id
    ELSE With(get_node(b, luhmann_id.nodes, luhmann_id.edges,
                       luhmann_to_node_id(luhmann_id.res.value)).res, LAMBDA got :
         IF got.kind = "Ok"
         THEN Outcome(luhmann_id.nodes, luhmann_id.edges,
                      NoteAlreadyExists(luhmann_id.res.value))
         ELSE IF got.kind # "NodeNotFound"
         THEN Outcome(luhmann_id.nodes, luhmann_id.edges, Storage(got))
         ELSE With(Note_new(luhmann_id.res.value, title, content), LAMBDA note :
              With(create_node(b, luhmann_id.nodes, luhmann_id.edges,
                               Note_to_node(note, now)), LAMBDA out :
                 IF out.res.kind # "Ok"
                 THEN Outcome(out.nodes, out.edges, Storage(out.res))
                 ELSE Outcome(out.nodes, out.edges, Ok(note))))))

\* Variant of create_note_with_id: no existence check, and the store
\* replaces the node of the address.
create_note_with_id_Overwrites(b, ns, es, id, title, content, now) ==
    With(Note_new(id, title, content), LAMBDA note :
        Outcome(Insert(ns, luhmann_to_node_id(id), Note_to_node(note, now)), es, Ok(note)))

create_note_with_id(b, ns, es, id, title, content, now) ==
    With(get_node(b, ns, es, luhmann_to_node_id(id)).res, LAMBDA got :
    IF got.kind = "Ok" THEN Outcome(ns, es, NoteAlreadyExists(id))
    ELSE IF got.kind # "NodeNotFound" THEN Outcome(ns, es, Storage(got))
    ELSE With(Note_new(id, title, content), LAMBDA note :
         With(create_node(b, ns, es, Note_to_node(note, now)), LAMBDA out :
            IF out.res.kind # "Ok"
            THEN Outcome(out.nodes, out.edges, Storage(out.res))
            ELSE Outcome(out.nodes, out.edges, Ok(note)))))

\* create_branch once the parent was found: from next_child_id on.
BranchUnder(b, ns, es, ord, parent_id, parent_node_id, title, content, now) ==
    With(next_child_id(b, ns, ord, parent_id), LAMBDA child_id :
    With(get_node(b, ns, es, luhmann_to_node_id(child_id)).res, LAMBDA got :
    IF got.kind = "Ok" THEN Outcome(ns, es, NoteAlreadyExists(child_id))
    ELSE IF got.kind # "NodeNotFound" THEN Outcome(ns, es, Storage(got))
    ELSE With(Note_new(child_id, title, content), LAMBDA note :
         With(create_node(b, ns, es, Note_to_node(note, now)), LAMBDA made :
         IF made.res.kind # "Ok"
         THEN Outcome(made.nodes, made.edges, Storage(made.res))
         ELSE With(create_edge(b, made.nodes, made.edges,
                               Edge_new(made.edges, "references",
                                        luhmann_to_node_id(child_id), parent_node_id)),
                   LAMBDA out :
                 IF out.res.kind # "Ok"
                 THEN Outcome(out.nodes, out.edges, Storage(out.res))
                 ELSE Outcome(out.nodes, out.edges, Ok(note)))))))

create_branch(b, ns, es, ord, parent_id, title, content, now) ==
    With(luhmann_to_node_id(parent_id), LAMBDA parent_node_id :
    With(get_node(b, ns, es, parent_node_id).res, LAMBDA found :
    IF found.kind = "NodeNotFound" THEN Outcome(ns, es, NoteNotFound(parent_id))
    ELSE IF found.kind # "Ok" THEN Outcome(ns, es, Storage(found))
    ELSE BranchUnder(b, ns, es, ord, parent_id, parent_node_id, title, content, now)))

get_note(b, ns, es, note_id) ==
    With(get_node(b, ns, es, luhmann_to_node_id(note_id)).res, LAMBDA got :
    IF got.kind = "NodeNotFound" THEN NoteNotFound(note_id)
    ELSE IF got.kind # "Ok" THEN Storage(got)
    ELSE With(Note_from_node(got.value), LAMBDA note :
            IF note.some THEN Ok(note.value) ELSE NoteNotFound(note_id)))

\* Variant of link_notes without the check that the two ids differ.
link_notes_NoSelfCheck(b, ns, es, from_id, to_id) ==
    With(get_note(b, ns, es, from_id), LAMBDA from_note :
    With(get_note(b, ns, es, to_id), LAMBDA to_note :
    IF from_note.kind # "Ok" THEN Outcome(ns, es, from_note)
    ELSE IF to_note.kind # "Ok" THEN Outcome(ns, es, to_note)
    ELSE With(create_edge(b, ns, es,
                          Edge_new(es, "references", luhmann_to_node_id(from_id),
                                   luhmann_to_node_id(to_id))), LAMBDA out :
            IF out.res.kind # "Ok"
            THEN Outcome(out.nodes, out.edges, Storage(out.res))
            ELSE Outcome(out.nodes, out.edges, OkUnit))))

link_notes(b, ns, es, from_id, to_id) ==
    IF from_id = to_id THEN Outcome(ns, es, SelfLink)
    ELSE With(get_note(b, ns, es, from_id), LAMBDA from_note :
         With(get_note(b, ns, es, to_id), LAMBDA to_note :
         IF from_note.kind # "Ok" THEN Outcome(ns, es, from_note)
         ELSE IF to_note.kind # "Ok" THEN Outcome(ns, es, to_note)
         ELSE With(create_edge(b, ns, es,
                               Edge_new(es, "references", luhmann_to_node_id(from_id),
                                        luhmann_to_node_id(to_id))), LAMBDA out :
                 IF out.res.kind # "Ok"
                 THEN Outcome(out.nodes, out.edges, Storage(out.res))
                 ELSE Outcome(out.nodes, out.edges, OkUnit))))

mark_continuation(b, ns, es, from_id, to_id) ==
    IF from_id = to_id THEN Outcome(ns, es, SelfLink)
    ELSE With(get_note(b, ns, es, from_id), LAMBDA from_note :
         With(get_note(b, ns, es, to_id), LAMBDA to_note :
         IF from_note.kind # "Ok" THEN Outcome(ns, es, from_note)
         ELSE IF to_note.kind # "Ok" THEN Outcome(ns, es, to_note)
         ELSE With(create_edge(b, ns, es,
                               Edge_new(es, "continues", luhmann_to_node_id(from_id),
                                        luhmann_to_node_id(to_id))), LAMBDA out :
                 IF out.res.kind # "Ok"
                 THEN Outcome(out.nodes, out.edges, Storage(out.res))
                 ELSE Outcome(out.nodes, out.edges, OkUnit))))

\* The address the node at the far end of a "references" edge carries.
LinkTarget(b, ns, es, edge) ==
    With(get_node(b, ns, es, edge.to_node_id).res, LAMBDA target_node :
        IF target_node.kind = "Ok" THEN parse(target_node.value.properties.luhmann_id)
        ELSE None)

\* get_links: one NoteLink per "references" edge out of the note whose target
\* is stored and carries an address; the model keeps them by edge.
get_links(b, ns, es, note_id) ==
    With(get_edges_from(b, ns, es, luhmann_to_node_id(note_id), "references").res.value,
         LAMBDA found :
        Ok({[edge |-> edge.id, from_note_id |-> note_id,
             to_note_id |-> LinkTarget(b, ns, es, edge).value,
             link_type |-> "References"] :
                edge \in {e \in found : LinkTarget(b, ns, es, e).some}}))

\* The lines "- [[id]]: title" of an index, one per child.
IndexLines(children) ==
    [i \in DOMAIN children |-> [id |-> fmt(children[i].id), title |-> children[i].title]]

RECURSIVE SelectChildren(_, _)
SelectChildren(notes, parent_id) ==
    IF notes = <<>> THEN <<>>
    ELSE (IF parent(Head(notes).id) = Some(parent_id) THEN <<Head(notes)>> ELSE <<>>)
            \o SelectChildren(Tail(notes), parent_id)

\* create_index once the index address is known free: the index note, then
\* its "child_of" edge to the parent.
WriteIndex(b, ns, es, parent_id, index_note, now) ==
    With(create_node(b, ns, es, Note_to_node(index_note, now)), LAMBDA made :
    IF made.res.kind # "Ok"
    THEN Outcome(made.nodes, made.edges, Storage(made.res))
    ELSE With(create_edge(b, made.nodes, made.edges,
                          Edge_new(made.edges, "child_of",
                                   luhmann_to_node_id(index_note.id),
                                   luhmann_to_node_id(parent_id))), LAMBDA out :
            IF out.res.kind # "Ok"
            THEN Outcome(out.nodes, out.edges, Storage(out.res))
            ELSE Outcome(out.nodes, out.edges, Ok(index_note))))

create_index(b, ns, es, ord, parent_id, now) ==
    With(get_note(b, ns, es, parent_id), LAMBDA parent_note :
    IF parent_note.kind # "Ok" THEN Outcome(ns, es, parent_note)
    ELSE With(SelectChildren(list_notes(b, ns, ord), parent_id), LAMBDA children :
         With(parse(fmt(parent_id) \o <<"0">>), LAMBDA index_id :
         IF ~index_id.some THEN Outcome(ns, es, InvalidLuhmannId(fmt(parent_id) \o <<"0">>))
         ELSE With(get_node(b, ns, es, luhmann_to_node_id(index_id.value)).res, LAMBDA got :
              IF got.kind = "Ok" THEN Outcome(ns, es, NoteAlreadyExists(index_id.value))
              ELSE IF got.kind # "NodeNotFound" THEN Outcome(ns, es, Storage(got))
              ELSE WriteIndex(b, ns, es, parent_id,
                      Note_new(index_id.value,
                               "Index: " \o parent_note.value.title,
                               [index_of |-> parent_note.value.title,
                                parent |-> fmt(parent_id),
                                children |-> IndexLines(children)]),
                      now)))))

-----------------------------------------------------------------------------
(* SpecKb: the calls that create and list notes, one at a time against one  *)
(* backend. A call that lists the notes meets the store in any order.       *)

\* The texts given as --id or as the parent of a branch or an index.
KbTexts == {<<"1">>, <<"1", "a">>, <<"1", "z">>, <<"1", "0">>}

KbIds == {parse(t).value : t \in KbTexts}

KbTitles == {"First", "Second"}

\* The content of a note a caller writes.
KbContent == [body |-> "Content"]

NoteKeys(ns) == {k \in DOMAIN ns : ns[k].node_type = "note"}

NoteCount(ns) == Cardinality(NoteKeys(ns))

\* The orders in which a search may meet the nodes of type "note"; the other
\* nodes fail its node_types filter wherever they come.
NoteOrders(ns) == IterationOrders(NoteKeys(ns))

InitKb ==
    /\ backend \in Backends
    /\ nodes = EmptyMap
    /\ edges = EmptyMap
    /\ schedules = EmptyMap
    /\ op = [name |-> "new"]
    /\ res = OkUnit
    /\ dropped = {}
    /\ order = <<>>
    /\ ConcUnused

CreateNote ==
    /\ NoteCount(nodes) < MaxNotes
    /\ \E now \in KbClock :
          Apply([name |-> "create_note"],
                create_note(backend, nodes, edges, "First", KbContent, now))
    /\ UNCHANGED <<order, concVars>>

CreateNoteWithId ==
    /\ NoteCount(nodes) < MaxNotes
    /\ \E id \in KbIds, now \in KbClock :
          Apply([name |-> "create_note_with_id", id |-> id],
                create_note_with_id(backend, nodes, edges, id, "First", KbContent, now))
    /\ UNCHANGED <<order, concVars>>

CreateBranch ==
    /\ NoteCount(nodes) < MaxNotes
    /\ \E parent_id \in KbIds, now \in KbClock, ord \in NoteOrders(nodes) :
          Apply([name |-> "create_branch", id |-> parent_id],
                create_branch(backend, nodes, edges, ord, parent_id, "First", KbContent, now))
    /\ UNCHANGED <<order, concVars>>

CreateIndex ==
    /\ NoteCount(nodes) < MaxNotes
    /\ \E parent_id \in KbIds, now \in KbClock, ord \in NoteOrders(nodes) :
          Apply([name |-> "create_index", id |-> parent_id],
                create_index(backend, nodes, edges, ord, parent_id, now))
    /\ UNCHANGED <<order, concVars>>

ListNotes ==
    /\ \E ord \in NoteOrders(nodes) :
          Apply([name |-> "list_notes"],
                Outcome(nodes, edges, Ok(list_notes(backend, nodes, ord))))
    /\ UNCHANGED <<order, concVars>>

KbNext ==
    \/ CreateNote
    \/ CreateNoteWithId
    \/ CreateBranch
    \/ CreateIndex
    \/ ListNotes

SpecKb == InitKb /\ [][KbNext]_vars

-----------------------------------------------------------------------------
(* SpecKbLinks: notes created at given addresses under either title, and    *)
(* the calls that link them, one at a time against one backend.             *)

MaxLinks == 2

LinkedIds == {parse(t).value : t \in {<<"1">>, <<"2">>}}

TitledNote ==
    /\ \E id \in LinkedIds, title \in KbTitles, now \in KbClock :
          Apply([name |-> "create_note_with_id", id |-> id, title |-> title],
                create_note_with_id(backend, nodes, edges, id, title, KbContent, now))
    /\ UNCHANGED <<order, concVars>>

LinkNotes ==
    /\ Cardinality(DOMAIN edges) < MaxLinks
    /\ \E from_id \in LinkedIds, to_id \in LinkedIds :
          Apply([name |-> "link_notes", from |-> from_id, to |-> to_id],
                link_notes(backend, nodes, edges, from_id, to_id))
    /\ UNCHANGED <<order, concVars>>

MarkContinuation ==
    /\ Cardinality(DOMAIN edges) < MaxLinks
    /\ \E from_id \in LinkedIds, to_id \in LinkedIds :
          Apply([name |-> "mark_continuation", from |-> from_id, to |-> to_id],
                mark_continuation(backend, nodes, edges, from_id, to_id))
    /\ UNCHANGED <<order, concVars>>

GetLinks ==
    /\ \E note_id \in LinkedIds :
          Apply([name |-> "get_links", id |-> note_id],
                Outcome(nodes, edges, get_links(backend, nodes, edges, note_id)))
    /\ UNCHANGED <<order, concVars>>

KbLinksNext ==
    \/ TitledNote
    \/ LinkNotes
    \/ MarkContinuation
    \/ GetLinks

SpecKbLinks == InitKb /\ [][KbLinksNext]_vars

-----------------------------------------------------------------------------
(* SpecKbConc: create_note called by several callers at once against one    *)
(* backend. Each storage call is one step (it runs under the store's lock   *)
(* or as one statement); between two awaited storage calls of one caller    *)
(* the other callers may run. `order` lists the top-level addresses the     *)
(* calls derived, oldest first.                                             *)

InitKbConc ==
    /\ backend \in Backends
    /\ nodes = EmptyMap
    /\ edges = EmptyMap
    /\ schedules = EmptyMap
    /\ op = [name |-> "new"]
    /\ res = OkUnit
    /\ dropped = {}
    /\ order = <<>>
    /\ pc = [c \in Caller |-> "idle"]
    /\ call = [c \in Caller |-> NoCall]
    /\ nodesLock = Unlocked
    /\ edgesLock = Unlocked

\* create_note of caller c returns r, leaving the store (ns, es).
KbReturn(c, ns, es, r) ==
    /\ Apply([name |-> "create_note", caller |-> c], Outcome(ns, es, r))
    /\ pc' = [pc EXCEPT ![c] = "idle"]
    /\ call' = [call EXCEPT ![c] = NoCall]

\* The call of caller c goes on to its next storage call.
KbGoto(c, label, frame, ns) ==
    /\ pc' = [pc EXCEPT ![c] = label]
    /\ call' = [call EXCEPT ![c] = frame]
    /\ nodes' = ns
    /\ UNCHANGED <<backend, schedules, edges, op, res, dropped>>

StoredCounter == get_node(backend, nodes, edges, string_to_node_id(CounterName)).res

\* get_or_init_counter: self.storage.get_node(counter_id).await
ReadCounter(c) ==
    /\ pc[c] = "idle"
    /\ Len(order) < MaxNotes
    /\ IF StoredCounter.kind = "Ok"
       THEN IF NoteCounter_from_node(StoredCounter.value).some
            THEN KbGoto(c, "update_counter",
                        [name |-> "create_note",
                         counter |-> NoteCounter_from_node(StoredCounter.value).value],
                        nodes)
            ELSE KbReturn(c, nodes, edges, Storage(ConstraintViolation))
       ELSE IF StoredCounter.kind = "NodeNotFound"
       THEN KbGoto(c, "create_counter", [name |-> "create_note"], nodes)
       ELSE KbReturn(c, nodes, edges, Storage(StoredCounter))
    /\ UNCHANGED <<order, nodesLock, edgesLock>>

NewCounterNode(now) == create_node(backend, nodes, edges, NoteCounter_to_node(NoteCounter_new, now))

\* get_or_init_counter: self.storage.create_node(&node).await?
CreateCounter(c) ==
    /\ pc[c] = "create_counter"
    /\ \E now \in KbClock :
          IF NewCounterNode(now).res.kind = "Ok"
          THEN KbGoto(c, "update_counter",
                      [name |-> "create_note", counter |-> NoteCounter_new],
                      NewCounterNode(now).nodes)
          ELSE KbReturn(c, nodes, edges, Storage(NewCounterNode(now).res))
    /\ UNCHANGED <<order, nodesLock, edgesLock>>

WrittenCounter(c, now) ==
    update_counter(backend, nodes, edges, next_main_topic_id(call[c].counter).counter, now)

\* next_main_id: counter.next_main_topic_id(), then
\* self.update_counter(&counter).await?
UpdateCounter(c) ==
    /\ pc[c] = "update_counter"
    /\ \E now \in KbClock :
          IF WrittenCounter(c, now).res.kind = "Ok"
          THEN KbGoto(c, "get_node",
                      [name |-> "create_note",
                       luhmann_id |-> next_main_topic_id(call[c].counter).id],
                      WrittenCounter(c, now).nodes)
          ELSE KbReturn(c, nodes, edges, WrittenCounter(c, now).res)
    /\ order' = Append(order, next_main_topic_id(call[c].counter).id)
    /\ UNCHANGED <<nodesLock, edgesLock>>

FoundNote(c) == get_node(backend, nodes, edges, luhmann_to_node_id(call[c].luhmann_id)).res

\* create_note: self.storage.get_node(node_id).await
CheckAddress(c) ==
    /\ pc[c] = "get_node"
    /\ IF FoundNote(c).kind = "Ok"
       THEN KbReturn(c, nodes, edges, NoteAlreadyExists(call[c].luhmann_id))
       ELSE IF FoundNote(c).kind = "NodeNotFound"
       THEN KbGoto(c, "create_node", call[c], nodes)
       ELSE KbReturn(c, nodes, edges, Storage(FoundNote(c)))
    /\ UNCHANGED <<order, nodesLock, edgesLock>>

StoredNote(c, now) ==
    create_node(backend, nodes, edges,
                Note_to_node(Note_new(call[c].luhmann_id, "First", KbContent), now))

\* create_note: self.storage.create_node(&node).await?
StoreNote(c) ==
    /\ pc[c] = "create_node"
    /\ \E now \in KbClock :
          IF StoredNote(c, now).res.kind = "Ok"
          THEN KbReturn(c, StoredNote(c, now).nodes, edges,
                        Ok(Note_new(call[c].luhmann_id, "First", KbContent)))
          ELSE KbReturn(c, nodes, edges, Storage(StoredNote(c, now).res))
    /\ UNCHANGED <<order, nodesLock, edgesLock>>

KbConcNext ==
    \E c \in Caller :
        \/ ReadCounter(c)
        \/ CreateCounter(c)
        \/ UpdateCounter(c)
        \/ CheckAddress(c)
        \/ StoreNote(c)

SpecKbConc == InitKbConc /\ [][KbConcNext]_vars

-----------------------------------------------------------------------------
(* MailServiceImpl: agents, mailboxes and mails stored as nodes of the      *)
(* graph; a mail hangs between two mailboxes by a sent_from and a sent_to   *)
(* edge.                                                                    *)

MaxMail == 3
MaxTick == 9

\* Uuid::new_v4(): the n-th random identifier drawn.
Uuid4(n) == [uuid4 |-> n]
NewNodeId(ns) == Uuid4(Cardinality(DOMAIN ns) + 1)

\* Uuid::to_string and Uuid::parse_str
Uuid_to_string(id) == [hyphenated |-> id]
Uuid_parse_str(s) == IF "hyphenated" \in DOMAIN s THEN Some(s.hyphenated) ELSE None

\* Utc::now(): a reading later than every timestamp in the store.
Latest(stamps) ==
    IF stamps = {} THEN 0
    ELSE CHOOSE t \in stamps : \A u \in stamps : u <= t

Utc_now(ns) ==
    1 + Latest({ns[x].created_at : x \in DOMAIN ns} \cup {ns[x].updated_at : x \in DOMAIN ns})

\* MailError
MailboxNotFound(id) == [kind |-> "MailboxNotFound", id |-> id]
MailNotFound(id) == [kind |-> "MailNotFound", id |-> id]

\* Node::new(node_type, properties) followed by node.id = id
Node_new(id, node_type, properties, now) ==
    [id |-> id, node_type |-> node_type, properties |-> properties,
     created_at |-> now, updated_at |-> now]

\* Agent::new for a name without whitespace, and Agent::to_node
Agent_new(name, now) == [id |-> name, name |-> name, status |-> "offline", created_at |-> now]

Agent_to_node(agent, now) ==
    Node_new(string_to_node_id(agent.id), "agent",
             [name |-> agent.name, agent_id |-> agent.id, status |-> agent.status], now)

\* Mailbox: a node of type mailbox with a fresh identifier.
Mailbox_new(id, owner_id, name, now) ==
    [id |-> id, owner_id |-> owner_id, name |-> name, created_at |-> now]

Mailbox_to_node(mailbox, now) ==
    Node_new(mailbox.id, "mailbox", [owner_id |-> mailbox.owner_id, name |-> mailbox.name], now)

Mailbox_from_node(node) ==
    IF node.node_type # "mailbox" THEN None
    ELSE Some(Mailbox_new(node.id, node.properties.owner_id, node.properties.name,
                          node.created_at))

Mail_new(id, from_mailbox_id, to_mailbox_id, subject, body, now) ==
    [id |-> id, from_mailbox_id |-> from_mailbox_id, to_mailbox_id |-> to_mailbox_id,
     subject |-> subject, body |-> body, read |-> FALSE, created_at |-> now]

\* Mail::to_node: Node::new stamps the node with the time of the call; only
\* the id is taken from the mail.
Mail_to_node(mail, now) ==
    Node_new(mail.id, "mail",
             [from_mailbox_id |-> Uuid_to_string(mail.from_mailbox_id),
              to_mailbox_id |-> Uuid_to_string(mail.to_mailbox_id),
              subject |-> mail.subject, body |-> mail.body, read |-> mail.read], now)

Mail_from_node(node) ==
    IF node.node_type # "mail" THEN None
    ELSE With(Uuid_parse_str(node.properties.from_mailbox_id), LAMBDA from_mailbox_id :
         With(Uuid_parse_str(node.properties.to_mailbox_id), LAMBDA to_mailbox_id :
            IF ~from_mailbox_id.some \/ ~to_mailbox_id.some THEN None
            ELSE Some([id |-> node.id,
                       from_mailbox_id |-> from_mailbox_id.value,
                       to_mailbox_id |-> to_mailbox_id.value,
                       subject |-> node.properties.subject,
                       body |-> node.properties.body,
                       read |-> node.properties.read,
                       created_at |-> node.created_at])))

\* Variant of mark_as_read that flips the flag.
mark_as_read_Toggles(mail) == [mail EXCEPT !.read = ~@]

mark_as_read(mail) == [mail EXCEPT !.read = TRUE]

\* The rest of create_agent once the agent's node is stored.
CreateInbox(b, ns, es, agent, inbox) ==
    With(create_node(b, ns, es, Mailbox_to_node(inbox, inbox.created_at)), LAMBDA stored :
    IF stored.res.kind # "Ok" THEN Outcome(stored.nodes, stored.edges, Storage(stored.res))
    ELSE With(create_edge(b, stored.nodes, stored.edges,
                          Edge_new(stored.edges, "owns", string_to_node_id(agent.id), inbox.id)),
              LAMBDA owned :
            IF owned.res.kind # "Ok" THEN Outcome(owned.nodes, owned.edges, Storage(owned.res))
            ELSE Outcome(owned.nodes, owned.edges, Ok(agent))))

create_agent(b, ns, es, name) ==
    With(Agent_new(name, Utc_now(ns)), LAMBDA agent :
    With(create_node(b, ns, es, Agent_to_node(agent, agent.created_at)), LAMBDA out :
    IF out.res.kind # "Ok" THEN Outcome(out.nodes, out.edges, Storage(out.res))
    ELSE CreateInbox(b, out.nodes, out.edges, agent,
                     Mailbox_new(NewNodeId(out.nodes), agent.id, "Inbox", Utc_now(out.nodes)))))

get_mailbox(b, ns, es, id) ==
    With(get_node(b, ns, es, id).res, LAMBDA node :
    IF node.kind = "NodeNotFound" THEN MailboxNotFound(id)
    ELSE IF node.kind # "Ok" THEN Storage(node)
    ELSE With(Mailbox_from_node(node.value), LAMBDA mailbox :
            IF mailbox.some THEN Ok(mailbox.value) ELSE MailboxNotFound(id)))

\* The rest of send_mail once both mailboxes are found: the node, then the
\* two edges.
StoreMail(b, ns, es, mail) ==
    With(create_node(b, ns, es, Mail_to_node(mail, mail.created_at + 1)), LAMBDA stored :
    IF stored.res.kind # "Ok" THEN Outcome(stored.nodes, stored.edges, Storage(stored.res))
    ELSE With(create_edge(b, stored.nodes, stored.edges,
                          Edge_new(stored.edges, "sent_from", mail.from_mailbox_id, mail.id)),
              LAMBDA from_edge :
         IF from_edge.res.kind # "Ok"
         THEN Outcome(from_edge.nodes, from_edge.edges, Storage(from_edge.res))
         ELSE With(create_edge(b, from_edge.nodes, from_edge.edges,
                               Edge_new(from_edge.edges, "sent_to", mail.id, mail.to_mailbox_id)),
                   LAMBDA to_edge :
              IF to_edge.res.kind # "Ok"
              THEN Outcome(to_edge.nodes, to_edge.edges, Storage(to_edge.res))
              ELSE Outcome(to_edge.nodes, to_edge.edges, Ok(mail)))))

\* Variant of send_mail that does not look the two mailboxes up first.
send_mail_Unverified(b, ns, es, from_mailbox_id, to_mailbox_id, subject, body) ==
    StoreMail(b, ns, es, Mail_new(NewNodeId(ns), from_mailbox_id, to_mailbox_id,
                                  subject, body, Utc_now(ns)))

send_mail(b, ns, es, from_mailbox_id, to_mailbox_id, subject, body) ==
    IF get_mailbox(b, ns, es, from_mailbox_id).kind # "Ok"
    THEN Outcome(ns, es, get_mailbox(b, ns, es, from_mailbox_id))
    ELSE IF get_mailbox(b, ns, es, to_mailbox_id).kind # "Ok"
    THEN Outcome(ns, es, get_mailbox(b, ns, es, to_mailbox_id))
    ELSE StoreMail(b, ns, es, Mail_new(NewNodeId(ns), from_mailbox_id, to_mailbox_id,
                                       subject, body, Utc_now(ns)))

get_mail(b, ns, es, mail_id) ==
    With(get_node(b, ns, es, mail_id).res, LAMBDA node :
    IF node.kind # "Ok" THEN Storage(node)
    ELSE With(Mail_from_node(node.value), LAMBDA mail :
            IF mail.some THEN Ok(mail.value) ELSE MailNotFound(mail_id)))

\* for edge in edges { if let Ok(mail) = self.get_mail(..) { mails.push(mail) } }
\* with the edges taken in the order ord; head is TRUE for edge.from_node_id.
RECURSIVE MailsOf(_, _, _, _, _, _)
MailsOf(b, ns, es, found, ord, head) ==
    IF ord = <<>> THEN <<>>
    ELSE IF ~(\E e \in found : e.id = Head(ord)) THEN MailsOf(b, ns, es, found, Tail(ord), head)
    ELSE With(get_mail(b, ns, es, IF head THEN es[Head(ord)].from_node_id
                                  ELSE es[Head(ord)].to_node_id), LAMBDA mail :
            (IF mail.kind = "Ok" THEN <<mail.value>> ELSE <<>>)
                \o MailsOf(b, ns, es, found, Tail(ord), head))

\* mails.sort_by(|a, b| b.created_at.cmp(&a.created_at))
NewestFirst == [order_by |-> "CreatedAt", order_direction |-> "Desc"]

\* ord is the order in which the store hands out its edges.
get_mailbox_inbox(b, ns, es, ord, mailbox_id) ==
    IF get_mailbox(b, ns, es, mailbox_id).kind # "Ok" THEN get_mailbox(b, ns, es, mailbox_id)
    ELSE With(get_edges_to(b, ns, es, mailbox_id, "sent_to").res, LAMBDA incoming_edges :
            IF incoming_edges.kind # "Ok" THEN Storage(incoming_edges)
            ELSE Ok(SortBy(MailsOf(b, ns, es, incoming_edges.value, ord, TRUE), NewestFirst)))

get_mailbox_outbox(b, ns, es, ord, mailbox_id) ==
    IF get_mailbox(b, ns, es, mailbox_id).kind # "Ok" THEN get_mailbox(b, ns, es, mailbox_id)
    ELSE With(get_edges_from(b, ns, es, mailbox_id, "sent_from").res, LAMBDA outgoing_edges :
            IF outgoing_edges.kind # "Ok" THEN Storage(outgoing_edges)
            ELSE Ok(SortBy(MailsOf(b, ns, es, outgoing_edges.value, ord, FALSE), NewestFirst)))

mark_mail_as_read(b, ns, es, mail_id) ==
    With(get_mail(b, ns, es, mail_id), LAMBDA found :
    IF found.kind # "Ok" THEN Outcome(ns, es, found)
    ELSE With(mark_as_read(found.value), LAMBDA mail :
         With(update_node(b, ns, es, Mail_to_node(mail, Utc_now(ns))), LAMBDA out :
            IF out.res.kind # "Ok" THEN Outcome(out.nodes, out.edges, Storage(out.res))
            ELSE Outcome(out.nodes, out.edges, Ok(mail)))))

\* mailboxes.iter().filter_map(Mailbox::from_node), the neighbours taken in
\* the order ord of the edges that lead to them.
RECURSIVE MailboxesOf(_, _)
MailboxesOf(found, ord) ==
    IF ord = <<>> THEN <<>>
    ELSE IF Head(ord) \notin DOMAIN found THEN MailboxesOf(found, Tail(ord))
    ELSE With(Mailbox_from_node(found[Head(ord)]), LAMBDA mailbox :
            (IF mailbox.some THEN <<mailbox.value>> ELSE <<>>)
                \o MailboxesOf(found, Tail(ord)))

list_agent_mailboxes(b, ns, es, ord, agent_id) ==
    IF get_node(b, ns, es, string_to_node_id(agent_id)).res.kind # "Ok"
    THEN Storage(get_node(b, ns, es, string_to_node_id(agent_id)).res)
    ELSE With(get_neighbors(b, ns, es, string_to_node_id(agent_id), "owns", "Outgoing").res,
              LAMBDA mailboxes :
            IF mailboxes.kind # "Ok" THEN Storage(mailboxes)
            ELSE Ok(MailboxesOf(mailboxes.value, ord)))

\* for mailbox in mailboxes { let inbox = self.get_mailbox_inbox(..).await?;
\*     for mail in inbox { if !mail.read { all_unread.push(mail) } } }
RECURSIVE UnreadIn(_, _, _, _, _)
UnreadIn(b, ns, es, ord, mailboxes) ==
    IF mailboxes = <<>> THEN Ok(<<>>)
    ELSE With(get_mailbox_inbox(b, ns, es, ord, Head(mailboxes).id), LAMBDA inbox :
         IF inbox.kind # "Ok" THEN inbox
         ELSE With(UnreadIn(b, ns, es, ord, Tail(mailboxes)), LAMBDA rest :
              IF rest.kind # "Ok" THEN rest
              ELSE Ok(SelectSeq(inbox.value, LAMBDA mail : ~mail.read) \o rest.value)))

check_unread_mail(b, ns, es, ord, agent_id) ==
    With(list_agent_mailboxes(b, ns, es, ord, agent_id), LAMBDA mailboxes :
    IF mailboxes.kind # "Ok" THEN mailboxes
    ELSE With(UnreadIn(b, ns, es, ord, mailboxes.value), LAMBDA all_unread :
         IF all_unread.kind # "Ok" THEN all_unread
         ELSE Ok([has_unread |-> all_unread.value # <<>>,
                  all_unread |-> SortBy(all_unread.value, NewestFirst)])))

-----------------------------------------------------------------------------
(* SpecMail: agents are created, mails sent and marked as read, inboxes and *)
(* outboxes read, one call at a time against one backend. `order` lists the *)
(* mails sent, oldest first.                                                *)

AgentNames == {"Sender", "Receiver"}

\* The identifiers a caller passes: those of the stored nodes, mailbox or
\* not, and one of no node.
PassedIds == DOMAIN nodes \cup {Uuid4(0)}

\* The orders in which the store may hand out the edges of one type at a
\* mailbox; the edges the query drops do not matter to what is returned.
EdgeOrders(es, mailbox_id, edge_type) ==
    IterationOrders({x \in DOMAIN es :
        /\ es[x].edge_type = edge_type
        /\ mailbox_id \in {es[x].from_node_id, es[x].to_node_id}})

MailCount == Cardinality({x \in DOMAIN nodes : nodes[x].node_type = "mail"})

InitMail ==
    /\ backend \in Backends
    /\ nodes = EmptyMap
    /\ edges = EmptyMap
    /\ schedules = EmptyMap
    /\ op = [name |-> "new"]
    /\ res = OkUnit
    /\ dropped = {}
    /\ order = <<>>
    /\ ConcUnused

CreateAgent ==
    /\ Utc_now(nodes) + 1 <= MaxTick
    /\ \E name \in AgentNames :
          Apply([name |-> "create_agent", agent |-> name],
                create_agent(backend, nodes, edges, name))
    /\ UNCHANGED <<order, concVars>>

SendMail ==
    /\ MailCount < MaxMail
    /\ Utc_now(nodes) + 1 <= MaxTick
    /\ \E from_mailbox_id \in PassedIds, to_mailbox_id \in PassedIds :
          /\ Apply([name |-> "send_mail", from |-> from_mailbox_id, to |-> to_mailbox_id],
                   send_mail(backend, nodes, edges, from_mailbox_id, to_mailbox_id,
                             "Hello", "Body"))
          /\ order' = IF res'.kind = "Ok" THEN Append(order, res'.value.id) ELSE order
    /\ UNCHANGED concVars

MarkMailAsRead ==
    /\ Utc_now(nodes) <= MaxTick
    /\ \E mail_id \in PassedIds :
          Apply([name |-> "mark_mail_as_read", id |-> mail_id],
                mark_mail_as_read(backend, nodes, edges, mail_id))
    /\ UNCHANGED <<order, concVars>>

GetMailboxInbox ==
    /\ \E mailbox_id \in PassedIds : \E ord \in EdgeOrders(edges, mailbox_id, "sent_to") :
          Apply([name |-> "get_mailbox_inbox", id |-> mailbox_id],
                Outcome(nodes, edges, get_mailbox_inbox(backend, nodes, edges, ord, mailbox_id)))
    /\ UNCHANGED <<order, concVars>>

GetMailboxOutbox ==
    /\ \E mailbox_id \in PassedIds : \E ord \in EdgeOrders(edges, mailbox_id, "sent_from") :
          Apply([name |-> "get_mailbox_outbox", id |-> mailbox_id],
                Outcome(nodes, edges, get_mailbox_outbox(backend, nodes, edges, ord, mailbox_id)))
    /\ UNCHANGED <<order, concVars>>

\* The edges check_unread_mail goes through for the agent: those to the
\* mailboxes it owns and those of the mails sent to them.
UnreadEdges(agent_id) ==
    LET owns == {x \in DOMAIN edges : /\ edges[x].edge_type = "owns"
                                      /\ edges[x].from_node_id = string_to_node_id(agent_id)}
    IN  owns \cup {x \in DOMAIN edges :
                     /\ edges[x].edge_type = "sent_to"
                     /\ \E o \in owns : edges[x].to_node_id = edges[o].to_node_id}

CheckUnreadMail ==
    /\ \E agent_id \in AgentNames : \E ord \in IterationOrders(UnreadEdges(agent_id)) :
          Apply([name |-> "check_unread_mail", agent |-> agent_id],
                Outcome(nodes, edges, check_unread_mail(backend, nodes, edges, ord, agent_id)))
    /\ UNCHANGED <<order, concVars>>

MailNext ==
    \/ CreateAgent
    \/ SendMail
    \/ MarkMailAsRead
    \/ GetMailboxInbox
    \/ GetMailboxOutbox
    \/ CheckUnreadMail

SpecMail == InitMail /\ [][MailNext]_vars

-----------------------------------------------------------------------------
(* SpecMailSearch: mails are sent and searched, one call at a time against  *)
(* the in-process backend.                                                  *)

\* The Some(..) values of a sequence of options, in order.
RECURSIVE FilterMap(_)
FilterMap(options) ==
    IF options = <<>> THEN <<>>
    ELSE (IF Head(options).some THEN <<Head(options).value>> ELSE <<>>)
            \o FilterMap(Tail(options))

\* search_mail on InMemoryStorage; ord is the order in which nodes.values()
\* iterates. The agent filter retains every mail.
search_mail(ns, ord, search_text, agent_id, after, before, limit) ==
    With(MemSearchNodes(ns, ord,
             Query([AnyFilter EXCEPT !.node_types = {"mail"},
                                     !.search_text = search_text,
                                     !.created_after = after,
                                     !.created_before = before],
                   "CreatedAt", "Desc", limit + 1, 0)).value,
         LAMBDA results :
             With(FilterMap([i \in 1..Len(results.items) |->
                                Mail_from_node(results.items[i])]),
                  LAMBDA mails :
                      Ok([mails |-> IF Len(mails) > limit
                                    THEN SubSeq(mails, 1, limit) ELSE mails,
                          total_count |-> results.total_count,
                          has_more |-> results.has_more])))

InitMailSearch ==
    /\ backend = "memory"
    /\ nodes = EmptyMap
    /\ edges = EmptyMap
    /\ schedules = EmptyMap
    /\ op = [name |-> "new"]
    /\ res = OkUnit
    /\ dropped = {}
    /\ order = <<>>
    /\ ConcUnused

StoredMailIds == {x \in DOMAIN nodes : nodes[x].node_type = "mail"}

\* The lower bounds on created_at a caller passes: none, or the time of a
\* stored mail.
PassedAfter == {None} \cup {Some(nodes[x].created_at) : x \in StoredMailIds}

\* The nodes that are no mail are dropped by the filter wherever they come
\* in the iteration, so the order of the mails is all that is drawn.
SearchMail ==
    /\ \E after \in PassedAfter, limit \in 0..MaxLimit :
          \E ord \in IterationOrders(StoredMailIds) :
              Apply([name |-> "search_mail", after |-> after, limit |-> limit],
                    Outcome(nodes, edges,
                            search_mail(nodes, ord, None, None, after, None, limit)))
    /\ UNCHANGED <<order, concVars>>

MailSearchNext ==
    \/ CreateAgent
    \/ SendMail
    \/ SearchMail

SpecMailSearch == InitMailSearch /\ [][MailSearchNext]_vars

-----------------------------------------------------------------------------
(* SpecMailConc: send_mail and delete_mailbox called by several callers at  *)
(* once against one backend. Each awaited storage call is one step. The     *)
(* agents, each with its inbox, are created first, one call at a time;      *)
(* `order` lists the identifiers the concurrent calls drew, oldest first.   *)

delete_mailbox(b, ns, es, mailbox_id) ==
    IF get_mailbox(b, ns, es, mailbox_id).kind # "Ok"
    THEN Outcome(ns, es, get_mailbox(b, ns, es, mailbox_id))
    ELSE With(delete_node(b, ns, es, mailbox_id), LAMBDA out :
            IF out.res.kind # "Ok" THEN Outcome(out.nodes, out.edges, Storage(out.res))
            ELSE out)

StoredMailboxes == {x \in DOMAIN nodes : nodes[x].node_type = "mailbox"}

AllIdle == \A c \in Caller : pc[c] = "idle"

\* Uuid::new_v4() in a concurrent call: an identifier after those the
\* creation of the agents can have drawn and after all drawn since.
DrawnUuid == 2 * Cardinality(AgentNames) + Len(order) + 1

InitMailConc ==
    /\ backend \in Backends
    /\ nodes = EmptyMap
    /\ edges = EmptyMap
    /\ schedules = EmptyMap
    /\ op = [name |-> "new"]
    /\ res = OkUnit
    /\ dropped = {}
    /\ order = <<>>
    /\ pc = [c \in Caller |-> "idle"]
    /\ call = [c \in Caller |-> NoCall]
    /\ nodesLock = Unlocked
    /\ edgesLock = Unlocked

\* create_agent, before any concurrent call has started.
SetUpAgent ==
    /\ AllIdle
    /\ order = <<>>
    /\ op.name \in {"new", "create_agent"}
    /\ \E name \in AgentNames :
          Apply([name |-> "create_agent", agent |-> name],
                create_agent(backend, nodes, edges, name))
    /\ UNCHANGED <<order, concVars>>

\* The call of caller c returns r, leaving the store (ns, es).
MailReturn(c, o, ns, es, r) ==
    /\ Apply(o, Outcome(ns, es, r))
    /\ pc' = [pc EXCEPT ![c] = "idle"]
    /\ call' = [call EXCEPT ![c] = NoCall]

\* The call of caller c goes on to its next storage call.
MailGoto(c, label, frame, ns, es) ==
    /\ pc' = [pc EXCEPT ![c] = label]
    /\ call' = [call EXCEPT ![c] = frame]
    /\ nodes' = ns
    /\ edges' = es
    /\ UNCHANGED <<backend, schedules, op, res, dropped>>

\* send_mail: self.get_mailbox(from_mailbox_id).await?
SendVerifyFrom(c) ==
    /\ pc[c] = "idle"
    /\ Len(order) < MaxMail
    /\ \E from_mailbox_id \in StoredMailboxes, to_mailbox_id \in StoredMailboxes :
          IF get_mailbox(backend, nodes, edges, from_mailbox_id).kind = "Ok"
          THEN MailGoto(c, "send_mail:get_mailbox",
                        [name |-> "send_mail", from |-> from_mailbox_id, to |-> to_mailbox_id],
                        nodes, edges)
          ELSE MailReturn(c, [name |-> "send_mail", from |-> from_mailbox_id,
                              to |-> to_mailbox_id],
                          nodes, edges, get_mailbox(backend, nodes, edges, from_mailbox_id))
    /\ UNCHANGED <<order, nodesLock, edgesLock>>

\* send_mail: self.get_mailbox(to_mailbox_id).await?
SendVerifyTo(c) ==
    /\ pc[c] = "send_mail:get_mailbox"
    /\ IF get_mailbox(backend, nodes, edges, call[c].to).kind = "Ok"
       THEN MailGoto(c, "send_mail:create_node", call[c], nodes, edges)
       ELSE MailReturn(c, call[c], nodes, edges, get_mailbox(backend, nodes, edges, call[c].to))
    /\ UNCHANGED <<order, nodesLock, edgesLock>>

DrawnMail(c) ==
    Mail_new(Uuid4(DrawnUuid), call[c].from, call[c].to, "Hello", "Body", Utc_now(nodes))

MailNodeStored(c) ==
    create_node(backend, nodes, edges, Mail_to_node(DrawnMail(c), DrawnMail(c).created_at + 1))

\* send_mail: Mail::new, mail.to_node(), self.storage.create_node(&node).await?
SendCreateNode(c) ==
    /\ pc[c] = "send_mail:create_node"
    /\ IF MailNodeStored(c).res.kind = "Ok"
       THEN MailGoto(c, "send_mail:sent_from",
                     [name |-> "send_mail", from |-> call[c].from, to |-> call[c].to,
                      mail |-> DrawnMail(c)],
                     MailNodeStored(c).nodes, edges)
       ELSE MailReturn(c, call[c], nodes, edges, Storage(MailNodeStored(c).res))
    /\ order' = Append(order, DrawnUuid)
    /\ UNCHANGED <<nodesLock, edgesLock>>

DrawnEdge(edge_type, from_node_id, to_node_id) ==
    [Edge_new(edges, edge_type, from_node_id, to_node_id) EXCEPT !.id = DrawnUuid]

FromEdgeStored(c) ==
    create_edge(backend, nodes, edges, DrawnEdge("sent_from", call[c].from, call[c].mail.id))

\* send_mail: Edge::new("sent_from", ..), self.storage.create_edge(&from_edge).await?
SendFromEdge(c) ==
    /\ pc[c] = "send_mail:sent_from"
    /\ IF FromEdgeStored(c).res.kind = "Ok"
       THEN MailGoto(c, "send_mail:sent_to", call[c], nodes, FromEdgeStored(c).edges)
       ELSE MailReturn(c, call[c], nodes, edges, Storage(FromEdgeStored(c).res))
    /\ order' = Append(order, DrawnUuid)
    /\ UNCHANGED <<nodesLock, edgesLock>>

ToEdgeStored(c) ==
    create_edge(backend, nodes, edges, DrawnEdge("sent_to", call[c].mail.id, call[c].to))

\* Variant of SendToEdge that takes the mail back out of the store when the
\* edge cannot be created.
SendToEdge_Compensates(c) ==
    /\ pc[c] = "send_mail:sent_to"
    /\ IF ToEdgeStored(c).res.kind = "Ok"
       THEN MailReturn(c, call[c], nodes, ToEdgeStored(c).edges, Ok(call[c].mail))
       ELSE MailReturn(c, call[c], delete_node(backend, nodes, edges, call[c].mail.id).nodes,
                       delete_node(backend, nodes, edges, call[c].mail.id).edges,
                       Storage(ToEdgeStored(c).res))
    /\ order' = Append(order, DrawnUuid)
    /\ UNCHANGED <<nodesLock, edgesLock>>

\* send_mail: Edge::new("sent_to", ..), self.storage.create_edge(&to_edge).await?,
\* Ok(mail)
SendToEdge(c) ==
    /\ pc[c] = "send_mail:sent_to"
    /\ IF ToEdgeStored(c).res.kind = "Ok"
       THEN MailReturn(c, call[c], nodes, ToEdgeStored(c).edges, Ok(call[c].mail))
       ELSE MailReturn(c, call[c], nodes, edges, Storage(ToEdgeStored(c).res))
    /\ order' = Append(order, DrawnUuid)
    /\ UNCHANGED <<nodesLock, edgesLock>>

\* delete_mailbox: self.get_mailbox(mailbox_id).await?
DeleteVerify(c) ==
    /\ pc[c] = "idle"
    /\ \E mailbox_id \in StoredMailboxes :
          IF get_mailbox(backend, nodes, edges, mailbox_id).kind = "Ok"
          THEN MailGoto(c, "delete_mailbox:delete_node",
                        [name |-> "delete_mailbox", id |-> mailbox_id], nodes, edges)
          ELSE MailReturn(c, [name |-> "delete_mailbox", id |-> mailbox_id],
                          nodes, edges, get_mailbox(backend, nodes, edges, mailbox_id))
    /\ UNCHANGED <<order, nodesLock, edgesLock>>

MailboxDeleted(c) == delete_node(backend, nodes, edges, call[c].id)

\* delete_mailbox: self.storage.delete_node(mailbox_id).await?
DeleteMailboxNode(c) ==
    /\ pc[c] = "delete_mailbox:delete_node"
    /\ IF MailboxDeleted(c).res.kind = "Ok"
       THEN MailReturn(c, call[c], MailboxDeleted(c).nodes, MailboxDeleted(c).edges, OkUnit)
       ELSE MailReturn(c, call[c], nodes, edges, Storage(MailboxDeleted(c).res))
    /\ UNCHANGED <<order, nodesLock, edgesLock>>

MailConcNext ==
    \/ SetUpAgent
    \/ \E c \in Caller :
          \/ SendVerifyFrom(c)
          \/ SendVerifyTo(c)
          \/ SendCreateNode(c)
          \/ SendFromEdge(c)
          \/ SendToEdge(c)
          \/ DeleteVerify(c)
          \/ DeleteMailboxNode(c)

SpecMailConc == InitMailConc /\ [][MailConcNext]_vars

-----------------------------------------------------------------------------
(* ScheduleServiceImpl: schedules are rows of the table schedules. Times    *)
(* are whole seconds; a cron expression is the sequence of its fields.      *)

MaxSchedules == 2
MaxMinute == 1
Horizon == 120

\* The values a field of a cron expression selects, among the fields used.
FieldValues(field) ==
    CASE field = "*" -> Some(0..59)
      [] field = "*/2" -> Some({v \in 0..59 : v % 2 = 0})
      [] field = "0" -> Some({0})
      [] field = "30" -> Some({30})
      [] OTHER -> None

\* cron::Schedule::from_str: six or seven fields, the first the seconds, the
\* second the minutes; the expressions used leave the other fields at "*".
CronSchedule_from_str(expression) ==
    IF Len(expression) \notin {6, 7} THEN None
    ELSE IF \E i \in 1..Len(expression) : ~FieldValues(expression[i]).some THEN None
    ELSE IF \E i \in 3..Len(expression) : expression[i] # "*" THEN None
    ELSE Some([seconds |-> FieldValues(expression[1]).value,
               minutes |-> FieldValues(expression[2]).value])

\* Variant of validate_cron that takes the expression as it is.
validate_cron_AsIs(expression) == CronSchedule_from_str(expression)

\* validate_cron: the expression as it is, or with "0 " put before it.
validate_cron(expression) ==
    IF CronSchedule_from_str(expression).some THEN CronSchedule_from_str(expression)
    ELSE CronSchedule_from_str(<<"0">> \o expression)

\* The schedule has an occurrence at the second t.
Occurs(cron, t) == (t % 60) \in cron.seconds /\ ((t \div 60) % 60) \in cron.minutes

\* cron.after(&t).take(1): the first occurrence later than t.
After(cron, t) ==
    IF \E u \in (t + 1)..(t + Horizon) : Occurs(cron, u)
    THEN Some(CHOOSE u \in (t + 1)..(t + Horizon) :
                 /\ Occurs(cron, u)
                 /\ \A v \in (t + 1)..(t + Horizon) : Occurs(cron, v) => u <= v)
    ELSE None

\* current_time.with_second(0).with_nanosecond(0)
MinuteStart(t) == t - (t % 60)

\* Variant of should_fire that does not look at last_fired_at.
should_fire_IgnoresLastFired(schedule, current_time) ==
    IF ~schedule.is_active THEN FALSE
    ELSE IF ~validate_cron(schedule.cron_expression).some THEN FALSE
    ELSE With(After(validate_cron(schedule.cron_expression).value, MinuteStart(current_time)),
              LAMBDA upcoming :
            IF upcoming.some
            THEN /\ upcoming.value >= MinuteStart(current_time)
                 /\ upcoming.value < MinuteStart(current_time) + 60
            ELSE FALSE)

should_fire(schedule, current_time) ==
    IF ~schedule.is_active THEN FALSE
    ELSE IF ~validate_cron(schedule.cron_expression).some THEN FALSE
    ELSE IF /\ schedule.last_fired_at.some
            /\ schedule.last_fired_at.value >= MinuteStart(current_time)
            /\ schedule.last_fired_at.value < MinuteStart(current_time) + 60
    THEN FALSE
    ELSE With(After(validate_cron(schedule.cron_expression).value, MinuteStart(current_time)),
              LAMBDA upcoming :
            IF upcoming.some
            THEN /\ upcoming.value >= MinuteStart(current_time)
                 /\ upcoming.value < MinuteStart(current_time) + 60
            ELSE FALSE)

\* ScheduleError
InvalidCronExpression(expression) == [kind |-> "InvalidCronExpression", expression |-> expression]
ScheduleNotFound(id) == [kind |-> "ScheduleNotFound", id |-> id]

Schedule_new(id, agent_id, cron_expression, action, now) ==
    [id |-> id, agent_id |-> agent_id, cron_expression |-> cron_expression,
     action |-> action, is_active |-> TRUE, last_fired_at |-> None,
     created_at |-> now, updated_at |-> now]

\* Each of these returns the table it leaves and its result.
create_schedule(table, id, agent_id, cron_expression, action, now) ==
    IF ~validate_cron(cron_expression).some
    THEN [table |-> table, res |-> InvalidCronExpression(cron_expression)]
    ELSE [table |-> Insert(table, id, Schedule_new(id, agent_id, cron_expression, action, now)),
          res |-> Ok(Schedule_new(id, agent_id, cron_expression, action, now))]

get_schedule(table, id) ==
    IF HasKey(table, id) THEN Ok(table[id]) ELSE ScheduleNotFound(id)

toggle_schedule(table, id, now) ==
    IF get_schedule(table, id).kind # "Ok" THEN [table |-> table, res |-> get_schedule(table, id)]
    ELSE [table |-> [table EXCEPT ![id].is_active = ~@, ![id].updated_at = now],
          res |-> Ok([table[id] EXCEPT !.is_active = ~@, !.updated_at = now])]

\* WHERE agent_id = $1 ORDER BY created_at DESC; the rows are created at
\* different times.
RECURSIVE RowsNewestFirst(_)
RowsNewestFirst(rows) ==
    IF rows = {} THEN <<>>
    ELSE With(CHOOSE r \in rows : \A q \in rows : q.created_at <= r.created_at, LAMBDA newest :
            <<newest>> \o RowsNewestFirst(rows \ {newest}))

list_schedules_by_agent(table, agent_id) ==
    Ok(RowsNewestFirst({table[x] : x \in {y \in DOMAIN table : table[y].agent_id = agent_id}}))

\* The loop of check_and_fire_schedules over the rows read at its start:
\* the table it leaves and the actions it pushed.
RECURSIVE FireEach(_, _, _, _)
FireEach(table, rows, current_time, now) ==
    IF rows = <<>> THEN [table |-> table, fired_actions |-> <<>>]
    ELSE IF should_fire(Head(rows), current_time)
    THEN With(FireEach([table EXCEPT ![Head(rows).id].last_fired_at = Some(current_time),
                                     ![Head(rows).id].updated_at = now],
                       Tail(rows), current_time, now), LAMBDA rest :
            [table |-> rest.table,
             fired_actions |-> <<Head(rows).action>> \o rest.fired_actions])
    ELSE FireEach(table, Tail(rows), current_time, now)

check_and_fire_schedules(table, agent_id, current_time, now) ==
    With(FireEach(table, list_schedules_by_agent(table, agent_id).value, current_time, now),
         LAMBDA out : [table |-> out.table, res |-> Ok(out.fired_actions)])

-----------------------------------------------------------------------------
(* SpecSchedule: schedules are created and toggled, and checked at times    *)
(* that never go back. op.time is the time of the last check; `order`       *)
(* lists the firings, oldest first: which schedule, at which time.          *)

\* "* * * * *", "*/2 * * * *", "30 * * * * *", "* * * * * *", "often"
CronExpressions ==
    {<<"*", "*", "*", "*", "*">>,
     <<"*/2", "*", "*", "*", "*">>,
     <<"30", "*", "*", "*", "*", "*">>,
     <<"*", "*", "*", "*", "*", "*">>,
     <<"often">>}

\* Utc::now() for updated_at, which nothing reads, is the one reading
\* MaxTime; a row's created_at is its place in the order of creation.
CheckedTimes == {m * 60 + sec : m \in 0..MaxMinute, sec \in {0, 45}}

\* The action of a schedule names it: no two schedules share one.
ActionOf(id) == [run |-> id]

InitSchedule ==
    /\ backend = "postgres"
    /\ nodes = EmptyMap
    /\ edges = EmptyMap
    /\ schedules = EmptyMap
    /\ op = [name |-> "new", time |-> 0]
    /\ res = OkUnit
    /\ dropped = {}
    /\ order = <<>>
    /\ ConcUnused

ApplySchedule(o, out) ==
    /\ schedules' = out.table
    /\ res' = out.res
    /\ op' = o
    /\ UNCHANGED <<backend, nodes, edges, dropped, concVars>>

CreateSchedule ==
    /\ Cardinality(DOMAIN schedules) < MaxSchedules
    /\ \E agent_id \in AgentNames, cron_expression \in CronExpressions :
          ApplySchedule([name |-> "create_schedule", time |-> op.time],
                        create_schedule(schedules, Cardinality(DOMAIN schedules) + 1, agent_id,
                                        cron_expression,
                                        ActionOf(Cardinality(DOMAIN schedules) + 1),
                                        Cardinality(DOMAIN schedules) + 1))
    /\ UNCHANGED order

ToggleSchedule ==
    /\ \E id \in 1..MaxSchedules :
          ApplySchedule([name |-> "toggle_schedule", id |-> id, time |-> op.time],
                        toggle_schedule(schedules, id, MaxTime))
    /\ UNCHANGED order

\* The firings of one call: the schedules whose last_fired_at it set.
Firings(before, after, current_time) ==
    RowsNewestFirst({[id |-> x, created_at |-> before[x].created_at, time |-> current_time] :
                        x \in {y \in DOMAIN before : before[y].last_fired_at
                                                        # after[y].last_fired_at}})

CheckAndFireSchedules ==
    /\ \E agent_id \in AgentNames, current_time \in CheckedTimes :
          /\ current_time >= op.time
          /\ ApplySchedule([name |-> "check_and_fire_schedules", agent |-> agent_id,
                            time |-> current_time],
                           check_and_fire_schedules(schedules, agent_id, current_time,
                                                    MaxTime))
          /\ order' = order \o Firings(schedules, schedules', current_time)

ScheduleNext ==
    \/ CreateSchedule
    \/ ToggleSchedule
    \/ CheckAndFireSchedules

SpecSchedule == InitSchedule /\ [][ScheduleNext]_vars

-----------------------------------------------------------------------------
(* Bounded breadth-first relation discovery: related(node, depth), composed *)
(* of get_edges_from, get_edges_to and get_node.                            *)

MaxRelated == 4
MaxRelatedEdges == 3
MaxDepth == 2

\* The elements of a set of numbers, smallest first.
RECURSIVE Ascending(_)
Ascending(S) ==
    IF S = {} THEN <<>>
    ELSE With(CHOOSE x \in S : \A y \in S : x <= y,
              LAMBDA least : <<least>> \o Ascending(S \ {least}))

\* The other ends of the edges at node_id, whichever way they point.
OtherEnds(b, ns, es, node_id) ==
    {edge.to_node_id : edge \in get_edges_from(b, ns, es, node_id, NoType).res.value}
        \cup {edge.from_node_id : edge \in get_edges_to(b, ns, es, node_id, NoType).res.value}

\* queue holds the visited nodes still to expand, each with its number of
\* hops from the start; a node met for the first time is visited, returned
\* and queued, and a node `depth` hops away is not expanded.
RECURSIVE Explore(_, _, _, _, _, _, _)
Explore(b, ns, es, queue, visited, found, depth) ==
    IF queue = <<>> THEN found
    ELSE IF Head(queue).hops >= depth
    THEN Explore(b, ns, es, Tail(queue), visited, found, depth)
    ELSE With(Ascending({id \in OtherEnds(b, ns, es, Head(queue).id) \ visited :
                            get_node(b, ns, es, id).res.kind = "Ok"}),
              LAMBDA fresh :
                  Explore(b, ns, es,
                          Tail(queue) \o [i \in 1..Len(fresh) |->
                                             [id |-> fresh[i], hops |-> Head(queue).hops + 1]],
                          visited \cup Range(fresh),
                          found \o [i \in 1..Len(fresh) |->
                                       get_node(b, ns, es, fresh[i]).res.value],
                          depth))

\* A variant that expands every node it meets, however far it is.
related_Unbounded(b, ns, es, node_id, depth) ==
    Outcome(ns, es,
        Ok(Explore(b, ns, es, <<[id |-> node_id, hops |-> 0]>>, {node_id}, <<>>,
                   IF depth = 0 THEN 0 ELSE MaxRelated)))

related(b, ns, es, node_id, depth) ==
    Outcome(ns, es,
        Ok(Explore(b, ns, es, <<[id |-> node_id, hops |-> 0]>>, {node_id}, <<>>, depth)))

-----------------------------------------------------------------------------
(* SpecRelated: nodes and edges are created and nodes deleted, and related   *)
(* is called, one call at a time against one backend.                        *)

RelatedNode(id) ==
    [id |-> id, node_type |-> "agent", properties |-> "{}",
     created_at |-> MaxTime, updated_at |-> MaxTime]

\* The store is built in a fixed order: node 1, node 2, ..., edge 1, ...
RCreateNode ==
    /\ Cardinality(DOMAIN nodes) < MaxRelated
    /\ DOMAIN edges = {}
    /\ Write(create_node(backend, nodes, edges,
                         RelatedNode(Cardinality(DOMAIN nodes) + 1)))
    /\ UNCHANGED <<order, concVars>>

RCreateEdge ==
    /\ Cardinality(DOMAIN edges) < MaxRelatedEdges
    /\ dropped = {}
    /\ \E from \in DOMAIN nodes, to \in DOMAIN nodes :
          Write(create_edge(backend, nodes, edges,
                            [id |-> Cardinality(DOMAIN edges) + 1, edge_type |-> "owns",
                             from_node_id |-> from, to_node_id |-> to]))
    /\ UNCHANGED <<order, concVars>>

\* One node is deleted, after the edges are there, and nothing is created
\* after it.
RDeleteNode ==
    /\ Cardinality(DOMAIN nodes) = MaxRelated
    /\ Cardinality(DOMAIN edges) = MaxRelatedEdges
    /\ \E id \in DOMAIN nodes :
          /\ Write(delete_node(backend, nodes, edges, id))
          /\ dropped' # {}
    /\ UNCHANGED <<order, concVars>>

Related ==
    /\ \E id \in 1..MaxRelated, depth \in 0..MaxDepth :
          Apply([name |-> "related", id |-> id, depth |-> depth],
                related(backend, nodes, edges, id, depth))
    /\ UNCHANGED <<order, concVars>>

RelatedNext ==
    \/ RCreateNode
    \/ RCreateEdge
    \/ RDeleteNode
    \/ Related

SpecRelated == Init /\ [][RelatedNext]_vars

-----------------------------------------------------------------------------
(* Claims about the storage operations run one at a time (Spec) *)

Touches(edge, id) == edge.from_node_id = id \/ edge.to_node_id = id

\* C1: after delete_node(id) succeeds no stored edge has id as its source or
\* target, every other node is stored unchanged, every edge that does not
\* touch id is still stored, and for every other node B get_node(B) succeeds
\* and get_edges_to(B) holds no edge that came from id (none at all when
\* id -> B was the only edge into B).
C1_CascadeDelete ==
    [][\A id \in NodeId :
        (op'.name = "delete_node" /\ op'.id = id /\ res'.kind = "Ok") =>
            /\ \A e \in DOMAIN edges' : ~Touches(edges'[e], id)
            /\ \A k \in DOMAIN nodes \ {id} : HasKey(nodes', k) /\ nodes'[k] = nodes[k]
            /\ \A e \in DOMAIN edges :
                  ~Touches(edges[e], id) => HasKey(edges', e) /\ edges'[e] = edges[e]
            /\ \A b \in DOMAIN nodes \ {id} :
                  /\ get_node(backend, nodes', edges', b).res = Ok(nodes[b])
                  /\ get_edges_to(backend, nodes', edges', b, NoType).res.value
                       = {edges[e] : e \in {x \in DOMAIN edges :
                              edges[x].to_node_id = b /\ edges[x].from_node_id # id}}
      ]_vars

\* C1 witness: a delete_node that succeeded and removed an edge, leaving the
\* edge's other endpoint stored with no edge into it.
C1_Witness ==
    /\ op.name = "delete_node" /\ res.kind = "Ok"
    /\ dropped # {}
    /\ \E b \in DOMAIN nodes :
          get_edges_to(backend, nodes, edges, b, NoType).res.value = {}

\* The spec's error taxonomy for the code's StorageError variants: the only
\* ConstraintViolation the backends raise is the identifier collision of
\* InMemoryStorage::create_node.
ErrorClass(r) ==
    CASE r.kind \in {"NodeNotFound", "EdgeNotFound"} -> "NotFound"
      [] r.kind = "ConstraintViolation" -> "AlreadyExists"
      [] r.kind = "DatabaseError" -> "BackendError"
      [] OTHER -> "Ok"

\* C2 (as claimed): create_edge with a missing source or target returns
\* NotFound for a missing endpoint and leaves nodes and edges as they were.
C2_MissingEndpointNotFound ==
    [][\A edge \in Edge :
        (/\ CreateEdgeOf(edge)
         /\ (~HasKey(nodes, edge.from_node_id) \/ ~HasKey(nodes, edge.to_node_id))) =>
            /\ res'.kind = "NodeNotFound"
            /\ res'.id \in {edge.from_node_id, edge.to_node_id} \ DOMAIN nodes
            /\ nodes' = nodes
            /\ edges' = edges
      ]_vars

\* C3 (as claimed): create_node with a stored identifier yields AlreadyExists
\* and the node stored first is unaffected.
C3_DuplicateAlreadyExists ==
    [][\A node \in Node :
        (CreateNodeOf(node) /\ HasKey(nodes, node.id)) =>
            /\ ErrorClass(res') = "AlreadyExists"
            /\ nodes' = nodes
      ]_vars

\* C4: in the in-process backend, create_node(n) with a fresh identifier
\* returns n, and get_node(n.id) right after it returns a node equal to n in
\* id, node_type, properties, created_at and updated_at.
C4_CreateGetRoundTrip ==
    [][(backend = "memory" /\ op'.name = "create_node" /\ ~HasKey(nodes, op'.id)) =>
        \A n \in {m \in Node : m.id = op'.id} :
            CreateNodeOf(n) =>
                /\ res' = Ok(n)
                /\ MemGetNode(nodes', edges', n.id).res = Ok(n)
                /\ \A f \in {"id", "node_type", "properties", "created_at", "updated_at"} :
                      MemGetNode(nodes', edges', n.id).res.value[f] = n[f]
      ]_vars

\* C4 witness: a create_node that succeeded in the in-process backend with
\* created_at and updated_at different, and get_node finds the node.
C4_Witness ==
    /\ backend = "memory"
    /\ op.name = "create_node" /\ res.kind = "Ok"
    /\ res.value.created_at # res.value.updated_at
    /\ MemGetNode(nodes, edges, op.id).res.kind = "Ok"

\* C5: in the in-process backend, run one operation at a time, every stored
\* edge has a stored source node and a stored target node.
C5_EdgesHaveEndpoints ==
    backend = "memory" =>
        \A e \in DOMAIN edges :
            HasKey(nodes, edges[e].from_node_id) /\ HasKey(nodes, edges[e].to_node_id)

\* C5 witness: edges are still stored after a delete_node removed a node and
\* some edge with it.
C5_Witness ==
    /\ backend = "memory"
    /\ op.name = "delete_node" /\ res.kind = "Ok"
    /\ dropped # {}
    /\ edges # EmptyMap

\* C7: get_node, update_node and delete_node on an identifier that is not
\* stored return NodeNotFound(id); get_edge and delete_edge on an identifier
\* that is not stored return EdgeNotFound(id); nodes and edges are unchanged.
C7_AbsentIsNotFound ==
    [][/\ \A id \in NodeId :
            (/\ op'.name \in {"get_node", "update_node", "delete_node"}
             /\ op'.id = id
             /\ ~HasKey(nodes, id)) =>
                res' = NodeNotFound(id) /\ nodes' = nodes /\ edges' = edges
       /\ \A id \in EdgeId :
            (/\ op'.name \in {"get_edge", "delete_edge"}
             /\ op'.id = id
             /\ ~HasKey(edges, id)) =>
                res' = EdgeNotFound(id) /\ nodes' = nodes /\ edges' = edges
      ]_vars

\* C7 witness: a delete_node that failed with NodeNotFound while edges are
\* stored.
C7_Witness ==
    /\ op.name = "delete_node" /\ res.kind = "NodeNotFound"
    /\ edges # EmptyMap

\* C8 (as claimed): update_node on a stored node replaces its type, its
\* properties and its updated_at and leaves its identifier and its created_at
\* as they were, in both backends, whatever created_at the argument carries.
C8_UpdateKeepsCreatedAt ==
    [][\A node \in Node :
        (UpdateNodeOf(node) /\ HasKey(nodes, node.id)) =>
            /\ HasKey(nodes', node.id)
            /\ nodes'[node.id].id = nodes[node.id].id
            /\ nodes'[node.id].created_at = nodes[node.id].created_at
            /\ nodes'[node.id].node_type = node.node_type
            /\ nodes'[node.id].properties = node.properties
            /\ nodes'[node.id].updated_at = node.updated_at
      ]_vars

-----------------------------------------------------------------------------
(* Claims about the edge listings and get_neighbors (SpecQuery) *)

\* The identifiers adjacent to n through a stored edge of type t (any type
\* when t is NoType) in direction d.
Adjacent(n, t, d) ==
    LET typed == {x \in DOMAIN edges : t = NoType \/ edges[x].edge_type = t}
        out == {edges[x].to_node_id : x \in {y \in typed : edges[y].from_node_id = n}}
        inc == {edges[x].from_node_id : x \in {y \in typed : edges[y].to_node_id = n}}
    IN  CASE d = "Outgoing" -> out
          [] d = "Incoming" -> inc
          [] d = "Both" -> out \cup inc

\* C9 (as claimed): in both backends get_neighbors(n, t, direction) returns
\* the targets of the edges out of n for outgoing, the sources of the edges
\* into n for incoming, both of these for both, of type t only when t is
\* given, and no other node.
C9_NeighborsByDirection ==
    op.name = "get_neighbors" =>
        /\ res.kind = "Ok"
        /\ {res.value[x] : x \in DOMAIN res.value}
             = {nodes[k] : k \in Adjacent(op.id, op.edge_type, op.direction) \cap DOMAIN nodes}

-----------------------------------------------------------------------------
(* Claims about concurrent callers of the in-process backend (SpecConc) *)

Dangling(e) ==
    ~HasKey(nodes, edges[e].from_node_id) \/ ~HasKey(nodes, edges[e].to_node_id)

\* C6: create_edge validates under the nodes lock and inserts under the edges
\* lock as two separate critical sections: a caller that validates holds the
\* nodes lock as a reader, and a caller that has validated and goes on to
\* insert holds no lock on nodes (so a delete_node of an endpoint can run in
\* between; C6_Witness is the state that results).
C6_SeparateCriticalSections ==
    \A c \in Caller :
        /\ pc[c] = "create_edge:validate" =>
              c \in nodesLock.readers /\ nodesLock.writer = {}
        /\ pc[c] = "create_edge:edges.write" =>
              c \notin nodesLock.readers /\ c \notin nodesLock.writer

\* C6 witness: create_edge(e) has just returned Ok and e is stored while an
\* endpoint of e is not stored.
C6_Witness ==
    /\ op.name = "create_edge" /\ res.kind = "Ok"
    /\ HasKey(edges, op.id)
    /\ edges[op.id] = res.value
    /\ Dangling(op.id)

-----------------------------------------------------------------------------
(* Claims about search_nodes on the in-process backend (SpecSearch) *)

\* The filters the pagination claim ranges over: every type filter with
\* every updated_after bound.
PagedFilters ==
    {[AnyFilter EXCEPT !.node_types = types, !.updated_after = after] :
        types \in SUBSET NodeTypes, after \in {None} \cup {Some(t) : t \in Timestamp}}

Items(filter, by, dir, limit, offset) ==
    MemSearchNodes(nodes, order, Query(filter, by, dir, limit, offset)).value.items

\* C10: on an unchanged store, for every filter, ordering and n >= 1, the
\* items of search(limit=n, offset=0) followed by the items of
\* search(limit=n, offset=n) are the items of search(limit=2n, offset=0) in
\* the same order, nodes with equal timestamps included.
C10_PagesConcatenate ==
    \A filter \in PagedFilters, by \in OrderBy, dir \in OrderDirection, n \in 1..MaxLimit :
        Items(filter, by, dir, n, 0) \o Items(filter, by, dir, n, n)
            = Items(filter, by, dir, 2 * n, 0)

\* C10 witness: a search with offset = limit returned a second page that is
\* not empty, and its node has the same updated_at as the node of the first
\* page, the searches being ordered by updated_at.
C10_Witness ==
    /\ op.name = "search_nodes" /\ res.kind = "Ok"
    /\ op.query.order_by = "UpdatedAt"
    /\ op.query.offset = op.query.limit
    /\ res.value.items # <<>>
    /\ LET q == op.query
           first == Items(q, q.order_by, q.order_direction, q.limit, 0)
       IN  /\ first # <<>>
           /\ first[1].id # res.value.items[1].id
           /\ first[1].updated_at = res.value.items[1].updated_at

Max(a, b) == IF a > b THEN a ELSE b

\* C11: for every search, total_count is the number of stored nodes that
\* match the filter whatever limit and offset are, returned_count is the
\* length of items and is min(limit, max(0, total_count - offset)), and
\* has_more is true exactly when total_count > offset + limit.
C11_CountsAndHasMore ==
    op.name = "search_nodes" =>
        LET q == op.query
            r == res.value
            matching == {k \in DOMAIN nodes : matches_search_query(nodes[k], q)}
        IN  /\ res.kind = "Ok"
            /\ r.total_count = Cardinality(matching)
            /\ r.returned_count = Len(r.items)
            /\ r.returned_count = Min(q.limit, Max(0, r.total_count - q.offset))
            /\ r.has_more = (r.total_count > q.offset + q.limit)
            /\ \A limit \in 0..MaxLimit, offset \in 0..MaxOffset :
                  MemSearchNodes(nodes, order,
                      [q EXCEPT !.limit = limit, !.offset = offset]).value.total_count
                    = r.total_count

\* C11 witness: a search whose filter leaves out a stored node, with an
\* offset past the first match: a page shorter than the limit, has_more
\* false, total_count below the number of stored nodes.
C11_Witness ==
    /\ op.name = "search_nodes" /\ res.kind = "Ok"
    /\ op.query.offset > 0
    /\ res.value.total_count > 0
    /\ res.value.total_count < Cardinality(DOMAIN nodes)
    /\ res.value.returned_count < op.query.limit
    /\ ~res.value.has_more

-----------------------------------------------------------------------------
(* Claims about search_nodes on the relational backend (SpecSearchPg) *)

\* The sort key the query selects.
SelectedKey(node, query) ==
    IF query.order_by = "CreatedAt" THEN node.created_at ELSE node.updated_at

\* items is sorted by the field and in the direction the query selects.
SortedAsSelected(items, query) ==
    \A i, j \in 1..Len(items) :
        i < j => IF query.order_direction = "Asc"
                 THEN SelectedKey(items[i], query) <= SelectedKey(items[j], query)
                 ELSE SelectedKey(items[i], query) >= SelectedKey(items[j], query)

\* C12 (as claimed): the items of a search are sorted by the field the query
\* selects, created_at or updated_at, in the direction the query selects,
\* here in the relational backend.
C12_SortedAsSelected ==
    op.name = "search_nodes" =>
        res.kind = "Ok" /\ SortedAsSelected(res.value.items, op.query)

\* The same statement holds of the in-process backend (under SpecSearch): the
\* items of every search are sorted by the selected field in the selected
\* direction.
MemSearchSortedAsSelected ==
    op.name = "search_nodes" =>
        res.kind = "Ok" /\ SortedAsSelected(res.value.items, op.query)
                       /\ res = MemSearchNodes(nodes, order, op.query)

-----------------------------------------------------------------------------
(* Claims about the two backends given the same calls (SpecPair) *)

\* The nodes or edges a successful call returned, as a set.
Returned(name, r) ==
    CASE name \in {"create_node", "get_node", "update_node", "create_edge"} -> {r.value}
      [] name \in {"get_edges_from", "get_edges_to"} -> r.value
      [] name = "get_neighbors" -> {r.value[x] : x \in DOMAIN r.value}
      [] OTHER -> {}

\* C13 (as claimed): after any one sequence of create_node, get_node,
\* update_node, delete_node, create_edge, get_edges_from, get_edges_to and
\* get_neighbors calls on two empty stores, the last call returned the same
\* outcome kind in the in-process and in the relational backend and, on
\* success, the same set of nodes or edges.
C13_BackendsInterchangeable ==
    /\ ErrorClass(res["memory"]) = ErrorClass(res["postgres"])
    /\ res["memory"].kind = "Ok" =>
          Returned(op.name, res["memory"]) = Returned(op.name, res["postgres"])

-----------------------------------------------------------------------------
(* Claims about stored edges (Spec) *)

\* C14 (as claimed): edges are never mutated: create_edge with an edge
\* identifier that is already stored leaves the stored edge's type, source
\* and target as they were.
C14_EdgesNeverMutated ==
    [][\A edge \in WrittenEdges :
        (CreateEdgeOf(edge) /\ HasKey(edges, edge.id)) =>
            /\ HasKey(edges', edge.id)
            /\ edges'[edge.id] = edges[edge.id]
      ]_vars

-----------------------------------------------------------------------------
(* Claims about LuhmannId (SpecLuhmann) *)

\* The canonical form of a text: the characters that are ASCII digits or
\* ASCII letters, the letters lowercased.
RECURSIVE Canonical(_)
Canonical(s) ==
    IF s = <<>> THEN <<>>
    ELSE LET c == Head(s)
         IN  (IF is_ascii_digit(c) THEN <<c>>
              ELSE IF is_ascii_alphabetic(c) THEN <<to_ascii_lowercase(c)>>
              ELSE <<>>) \o Canonical(Tail(s))

\* C15 (as claimed): for every text s that parses to an id, the text of
\* parse(s) is the canonical form of s, digit runs with leading zeros
\* included.
C15_RenderParseIsCanonical ==
    (op.name = "parse" /\ res.some) => fmt(res.value) = Canonical(op.text)

\* C16 (as claimed): for every id a that parse can return, or that the calls
\* build from one, parsing the text of a gives a back.
C16_ParseRenderIsIdentity ==
    Holds => parse(fmt(HeldId)) = Some(HeldId)

\* The tokens of a text: one for each maximal run of digits and one for each
\* letter, in the order of the text.
RECURSIVE TokensFrom(_, _)
TokensFrom(s, i) ==
    IF i > Len(s) THEN <<>>
    ELSE IF is_ascii_digit(s[i])
         THEN <<[kind |-> "Number", digits |-> SubSeq(s, i, DigitRunEnd(s, i) - 1)]>>
                  \o TokensFrom(s, DigitRunEnd(s, i))
         ELSE IF is_ascii_alphabetic(s[i])
              THEN <<[kind |-> "Letter", c |-> to_ascii_lowercase(s[i])]>>
                       \o TokensFrom(s, i + 1)
              ELSE TokensFrom(s, i + 1)

\* A run of digits without its leading zeros ("0" for a run of zeros).
RECURSIVE StripLeadingZeros(_)
StripLeadingZeros(digits) ==
    IF Len(digits) > 1 /\ Head(digits) = "0"
    THEN StripLeadingZeros(Tail(digits)) ELSE digits

\* parse returned one part for each token of the text, with the token's value.
PartsAreTokens(r, tokens) ==
    /\ (r = None) <=> (tokens = <<>>)
    /\ r.some =>
          /\ Len(r.value.parts) = Len(tokens)
          /\ \A i \in 1..Len(tokens) :
                LET part == r.value.parts[i]
                IN  /\ part.kind = tokens[i].kind
                    /\ part.kind = "Letter" => part.c = tokens[i].c
                    /\ part.kind = "Number" =>
                          DisplayU32(part.n) = StripLeadingZeros(tokens[i].digits)

\* C17 (as claimed): parse yields one numeric part for each maximal run of
\* digits and one lowercase letter part for each letter, in the order of the
\* text, skips every other character, and is none exactly when the text has
\* no digit and no letter.
C17_OnePartPerToken ==
    op.name = "parse" => PartsAreTokens(res, TokensFrom(op.text, 1))

\* The digit runs of a text all fit a u32.
RunsFitU32(s) ==
    \A i \in 1..Len(TokensFrom(s, 1)) :
        TokensFrom(s, 1)[i].kind = "Number" => ParseU32(TokensFrom(s, 1)[i].digits).ok

\* The statement of C17 holds of the texts whose digit runs fit a u32.
ParseOnePartPerTokenThatFits ==
    (op.name = "parse" /\ RunsFitU32(op.text)) =>
        PartsAreTokens(res, TokensFrom(op.text, 1))

\* C18: parent() is none exactly when the id has one part and is otherwise
\* the id without its last part; for every id a, a.first_child().parent() is
\* a, and when a has a next sibling, a.next_sibling().parent() is a.parent().
C18_ParentDropsLast ==
    /\ op.name = "parent" =>
          res = IF level(op.id) = 1 THEN None
                ELSE Some(LuhmannId(DropLast(op.id.parts)))
    /\ Holds =>
          /\ (parent(HeldId) = None) <=> (level(HeldId) = 1)
          /\ parent(first_child(HeldId)) = Some(HeldId)
          /\ \A overflow_checks \in BOOLEAN :
                LET next == next_sibling(HeldId, overflow_checks)
                IN  next.some => parent(next.value) = parent(HeldId)

\* C18 witness: parent() returned an id of three parts or more, the id
\* without the last part of the id an earlier call built.
C18_Witness ==
    /\ op.name = "parent" /\ res.some
    /\ op.steps = MaxSteps
    /\ level(res.value) >= 3

\* The successor of a part: integer + 1, or the next letter.
Successor(part) ==
    IF part.kind = "Number"
    THEN Number(IF part.n.lo = Limb - 1 THEN U32(part.n.hi + 1, 0)
                ELSE U32(part.n.hi, part.n.lo + 1))
    ELSE Letter(FromU8(AsU8(part.c) + 1))

\* next_sibling gave r for id as the claim has it.
IsNextSibling(id, r) ==
    LET last == Last(id.parts)
    IN  /\ (r = None) <=> (last = Letter("z"))
        /\ last # Letter("z") =>
              /\ r.some
              /\ r.value = LuhmannId(Append(DropLast(id.parts), Successor(last)))
              /\ level(r.value) = level(id)
              /\ IdLess(id, r.value)

\* C19 (as claimed): next_sibling() is none exactly when the last part is
\* the letter z; otherwise it is the id with its last part replaced by the
\* part's successor, of the same level and sorting strictly after the id.
C19_NextSiblingIsSuccessor ==
    op.name = "next_sibling" => IsNextSibling(op.id, res)

\* The statement of C19 holds of every id whose last part is not the number
\* u32::MAX.
NextSiblingBelowMax ==
    (op.name = "next_sibling" /\ Last(op.id.parts) # Number(U32Max)) =>
        IsNextSibling(op.id, res)

\* C20: first_child() always returns an id: the receiver with one part
\* appended, the letter a after a number and the number 1 after a letter; its
\* level is the receiver's plus one and it is a descendant of the receiver.
C20_FirstChildAppends ==
    /\ Holds =>
          first_child(HeldId).parts \in Seq([kind : {"Number"}, n : [hi : 0..Limb, lo : 0..Limb]]
                                            \cup [kind : {"Letter"}, c : Range(LowerChars)])
    /\ op.name = "first_child" =>
          /\ res = LuhmannId(Append(op.id.parts,
                       IF Last(op.id.parts).kind = "Number"
                       THEN Letter("a") ELSE Number(U32(0, 1))))
          /\ level(res) = level(op.id) + 1
          /\ is_descendant_of(res, op.id)
          /\ ~is_descendant_of(op.id, res)

\* C20 witness: first_child() of an id that ends in a letter and that an
\* earlier call built, so a number was appended.
C20_Witness ==
    /\ op.name = "first_child"
    /\ op.steps = MaxSteps
    /\ Last(op.id.parts).kind = "Letter"
    /\ Last(res.parts) = Number(U32(0, 1))

\* other's parts are a strictly shorter exact prefix of id's parts.
StrictPrefix(other, id) ==
    /\ Len(other.parts) < Len(id.parts)
    /\ \A i \in 1..Len(other.parts) : other.parts[i] = id.parts[i]

\* C21: a.is_descendant_of(b) is true exactly when b's parts are a strictly
\* shorter exact prefix of a's parts; the relation is irreflexive and
\* transitive, and an id of more than one part is a descendant of its parent.
C21_DescendantIsStrictPrefix ==
    op.name = "is_descendant_of" =>
        /\ res = StrictPrefix(op.other, op.id)
        /\ ~is_descendant_of(op.id, op.id)
        /\ ~is_descendant_of(op.other, op.other)
        /\ \A c \in ComparedIds(op.other) :
              (res /\ is_descendant_of(op.other, c)) => is_descendant_of(op.id, c)
        /\ level(op.id) > 1 => is_descendant_of(op.id, parent(op.id).value)

\* C21 witness: the call returned true for an ancestor that is itself a
\* descendant of a third id, on an id an earlier call built.
C21_Witness ==
    /\ op.name = "is_descendant_of"
    /\ res
    /\ op.steps = MaxSteps
    /\ level(op.other) >= 2
    /\ level(op.id) > level(op.other) + 1

-----------------------------------------------------------------------------
(* Claims about the knowledge base (SpecKb) *)

\* The addresses of the notes a store holds.
HeldIds(ns) == {parse(ns[k].properties.luhmann_id).value : k \in NoteKeys(ns)}

ChildrenOf(ns, parent_id) == {id \in HeldIds(ns) : parent(id) = Some(parent_id)}

\* Segment p before segment q: by kind first, a number before a letter,
\* then by value.
SegmentBefore(p, q) ==
    IF p.kind # q.kind THEN p.kind = "Number"
    ELSE IF p.kind = "Number"
         THEN p.n.hi * Limb + p.n.lo < q.n.hi * Limb + q.n.lo
         ELSE IndexOf(LowerChars, p.c) < IndexOf(LowerChars, q.c)

\* a before b lexicographically: at the first position where they differ a
\* has ended or holds the earlier segment.
LexBefore(a, b) ==
    \E i \in 1..Len(b.parts) :
        /\ i <= Len(a.parts) + 1
        /\ \A j \in 1..(i - 1) : a.parts[j] = b.parts[j]
        /\ i = Len(a.parts) + 1 \/ SegmentBefore(a.parts[i], b.parts[i])

\* C22: the ids are totally ordered, lexicographically over their segments,
\* a segment comparing by kind first and then by value and a proper prefix
\* sorting before its extensions, so an id sorts strictly after each of its
\* ancestors; list_notes returns the notes stored in this order, each once.
C22_ListedInIdOrder ==
    /\ \A a, b \in KbIds \cup HeldIds(nodes) :
          /\ IdLess(a, b) <=> LexBefore(a, b)
          /\ IdLess(a, b) \/ IdLess(b, a) \/ a = b
          /\ ~(IdLess(a, b) /\ IdLess(b, a))
          /\ ~IdLess(a, a)
          /\ StrictPrefix(a, b) => IdLess(a, b)
          /\ is_descendant_of(b, a) => IdLess(a, b)
          /\ \A c \in KbIds \cup HeldIds(nodes) :
                (IdLess(a, b) /\ IdLess(b, c)) => IdLess(a, c)
    /\ op.name = "list_notes" =>
          /\ res.kind = "Ok"
          /\ \A i, j \in DOMAIN res.value :
                i < j => IdLess(res.value[i].id, res.value[j].id)
          /\ {res.value[i].id : i \in DOMAIN res.value} = HeldIds(nodes)

\* C22 witness: list_notes returned the notes 1, 1a and 2 in this order.
C22_Witness ==
    /\ op.name = "list_notes"
    /\ [i \in DOMAIN res.value |-> fmt(res.value[i].id)] = <<<<"1">>, <<"1", "a">>, <<"2">>>>

\* The store holds what create_note calls alone leave: the notes 1..n and
\* the counter at n + 1, or nothing.
FromCreateNoteOnly(ns) ==
    \/ ns = EmptyMap
    \/ /\ HasKey(ns, string_to_node_id(CounterName))
       /\ ns[string_to_node_id(CounterName)].properties.next_main_id
             = U32(0, NoteCount(ns) + 1)
       /\ HeldIds(ns) = {LuhmannId(<<Number(U32(0, n))>>) : n \in 1..NoteCount(ns)}

\* C24 (as claimed): create_note succeeds after any sequence of earlier
\* create_note, create_note_with_id and create_index calls and returns an
\* address of one numeric segment that no note held before the call; where
\* only create_note has been used, the k-th call returns the address k.
C24_CreateNoteNextAvailable ==
    [][op'.name = "create_note" =>
          /\ res'.kind = "Ok"
          /\ level(res'.value.id) = 1
          /\ Last(res'.value.id.parts).kind = "Number"
          /\ res'.value.id \notin HeldIds(nodes)
          /\ FromCreateNoteOnly(nodes) =>
                res'.value.id = LuhmannId(<<Number(U32(0, NoteCount(nodes) + 1))>>)]_vars

\* The k-th create_note returns the address k where only create_note calls
\* came before.
CreateNoteCountsUp ==
    [][(op'.name = "create_note" /\ FromCreateNoteOnly(nodes)) =>
          /\ res'.kind = "Ok"
          /\ res'.value.id = LuhmannId(<<Number(U32(0, NoteCount(nodes) + 1))>>)]_vars

\* create_branch returned r for parent_id on the store ns as the claim has it.
IsNextChild(ns, parent_id, r) ==
    /\ r.kind = "Ok"
    /\ parent(r.value.id) = Some(parent_id)
    /\ r.value.id \notin HeldIds(ns)
    /\ IF ChildrenOf(ns, parent_id) = {} THEN r.value.id = first_child(parent_id)
       ELSE Some(r.value.id) = next_sibling(Greatest(ChildrenOf(ns, parent_id)), TRUE)

\* C25 (as claimed): create_branch on an existing parent returns a new note
\* whose address is a direct child of the parent that no note held: the
\* parent's first child when it has no children, otherwise the next sibling
\* of its greatest child, a child ending in z included; on a parent that
\* does not exist it returns NoteNotFound and creates nothing.
C25_BranchIsNextChild ==
    [][op'.name = "create_branch" =>
          IF get_note(backend, nodes, edges, op'.id).kind = "Ok"
          THEN IsNextChild(nodes, op'.id, res')
          ELSE /\ res' = NoteNotFound(op'.id)
               /\ nodes' = nodes
               /\ edges' = edges]_vars

\* The statement of C25 holds where the parent's greatest child does not
\* end in the letter z.
BranchIsNextChildBelowZ ==
    [][(/\ op'.name = "create_branch"
        /\ \A id \in ChildrenOf(nodes, op'.id) : Last(id.parts) # Letter("z")) =>
          IF get_note(backend, nodes, edges, op'.id).kind = "Ok"
          THEN IsNextChild(nodes, op'.id, res')
          ELSE /\ res' = NoteNotFound(op'.id)
               /\ nodes' = nodes
               /\ edges' = edges]_vars

\* An earlier create_index on the parent succeeded: its "child_of" edge.
Indexed(ns, es, parent_id) ==
    \E x \in DOMAIN es :
        /\ es[x].edge_type = "child_of"
        /\ es[x].to_node_id = luhmann_to_node_id(parent_id)

\* create_index returned r for parent_id on the store ns as the claim has it.
IsIndexOf(ns, parent_id, r) ==
    /\ r.kind = "Ok"
    /\ fmt(r.value.id) = fmt(parent_id) \o <<"0">>
    /\ LET lines == r.value.content.children
       IN  /\ {lines[i].id : i \in DOMAIN lines} = {fmt(id) : id \in ChildrenOf(ns, parent_id)}
           /\ \A i, j \in DOMAIN lines : lines[i].id = lines[j].id => i = j

\* C28 (as claimed): create_index on an existing note creates a note whose
\* address renders as the parent's text followed by 0 and whose content
\* lists every note whose parent() is the parent exactly once and no other;
\* a second create_index on the parent returns NoteAlreadyExists and changes
\* nothing.
C28_IndexListsChildren ==
    [][(op'.name = "create_index" /\ get_note(backend, nodes, edges, op'.id).kind = "Ok") =>
          IF Indexed(nodes, edges, op'.id)
          THEN /\ res'.kind = "NoteAlreadyExists"
               /\ nodes' = nodes
               /\ edges' = edges
          ELSE /\ IsIndexOf(nodes, op'.id, res')
               /\ get_note(backend, nodes', edges', res'.value.id) = res']_vars

\* The statement of C28 holds where no note holds the address of the index
\* before the first create_index.
IndexListsChildrenOnFreeAddress ==
    [][(/\ op'.name = "create_index"
        /\ get_note(backend, nodes, edges, op'.id).kind = "Ok"
        /\ Indexed(nodes, edges, op'.id)
              \/ parse(fmt(op'.id) \o <<"0">>).value \notin HeldIds(nodes)) =>
          IF Indexed(nodes, edges, op'.id)
          THEN /\ res'.kind = "NoteAlreadyExists"
               /\ nodes' = nodes
               /\ edges' = edges
          ELSE /\ IsIndexOf(nodes, op'.id, res')
               /\ get_note(backend, nodes', edges', res'.value.id) = res']_vars

-----------------------------------------------------------------------------
(* Claims about notes and their links (SpecKbLinks) *)

\* C26: create_note_with_id with an address that a note already holds
\* returns NoteAlreadyExists, and get_note returns that note with the title
\* and the content it had.
C26_DuplicateKeepsNote ==
    [][(/\ op'.name = "create_note_with_id"
        /\ get_note(backend, nodes, edges, op'.id).kind = "Ok") =>
          /\ res' = NoteAlreadyExists(op'.id)
          /\ get_note(backend, nodes', edges', op'.id) = get_note(backend, nodes, edges, op'.id)
          /\ nodes' = nodes]_vars

\* C26 witness: the refused call carried another title than the one the
\* note at the address has.
C26_Witness ==
    /\ op.name = "create_note_with_id"
    /\ res = NoteAlreadyExists(op.id)
    /\ get_note(backend, nodes, edges, op.id).kind = "Ok"
    /\ get_note(backend, nodes, edges, op.id).value.title # op.title

\* The call added exactly one edge, of the type, from the one note to the
\* other, and kept the edges there were.
AddedOneEdge(es, after, edge_type, from_id, to_id) ==
    \E x \in DOMAIN after \ DOMAIN es :
        /\ DOMAIN after = DOMAIN es \cup {x}
        /\ \A y \in DOMAIN es : after[y] = es[y]
        /\ after[x].edge_type = edge_type
        /\ after[x].from_node_id = luhmann_to_node_id(from_id)
        /\ after[x].to_node_id = luhmann_to_node_id(to_id)

HasLinkTo(links, to_id) == \E link \in links.value : link.to_note_id = to_id

\* What link_notes and mark_continuation return and leave when they refuse.
LinkRefused(o, r, ns, es, after) ==
    IF o.from = o.to THEN r = SelfLink /\ after = es
    ELSE /\ r.kind = "NoteNotFound"
         /\ after = es

LinkIsValid(b, ns, es, o) ==
    /\ o.from # o.to
    /\ get_note(b, ns, es, o.from).kind = "Ok"
    /\ get_note(b, ns, es, o.to).kind = "Ok"

\* C27 (as claimed): link_notes and mark_continuation return SelfLink when
\* from equals to and NoteNotFound when either note does not exist, and then
\* create no edge; when they succeed exactly one edge from -> to of type
\* references (respectively continues) is added and get_links(from) then
\* contains a link to to.
C27_LinkThenListed ==
    [][op'.name \in {"link_notes", "mark_continuation"} =>
          IF ~LinkIsValid(backend, nodes, edges, op')
          THEN LinkRefused(op', res', nodes, edges, edges')
          ELSE /\ res' = OkUnit
               /\ AddedOneEdge(edges, edges',
                               IF op'.name = "link_notes" THEN "references" ELSE "continues",
                               op'.from, op'.to)
               /\ HasLinkTo(get_links(backend, nodes', edges', op'.from), op'.to)]_vars

\* C27 (amended): link_notes and mark_continuation return SelfLink when from
\* equals to and NoteNotFound when either note does not exist, and then
\* create no edge; when they succeed exactly one edge from -> to of type
\* references (respectively continues) is added. After link_notes,
\* get_links(from) contains a link to to; mark_continuation leaves what
\* get_links(from) returns as it was.
C27_LinkListedAfterLinkNotes ==
    [][op'.name \in {"link_notes", "mark_continuation"} =>
          IF ~LinkIsValid(backend, nodes, edges, op')
          THEN LinkRefused(op', res', nodes, edges, edges')
          ELSE /\ res' = OkUnit
               /\ nodes' = nodes
               /\ AddedOneEdge(edges, edges',
                               IF op'.name = "link_notes" THEN "references" ELSE "continues",
                               op'.from, op'.to)
               /\ IF op'.name = "link_notes"
                  THEN HasLinkTo(get_links(backend, nodes', edges', op'.from), op'.to)
                  ELSE get_links(backend, nodes', edges', op'.from)
                          = get_links(backend, nodes, edges, op'.from)]_vars

\* C27 witness: mark_continuation succeeded and get_links of its source has
\* no link to its target.
C27_Witness ==
    /\ op.name = "mark_continuation"
    /\ res = OkUnit
    /\ \E x \in DOMAIN edges :
          /\ edges[x].edge_type = "continues"
          /\ edges[x].from_node_id = luhmann_to_node_id(op.from)
          /\ edges[x].to_node_id = luhmann_to_node_id(op.to)
    /\ ~HasLinkTo(get_links(backend, nodes, edges, op.from), op.to)

-----------------------------------------------------------------------------
(* Claims about concurrent create_note (SpecKbConc) *)

NoRepeat(seq) == \A i, j \in 1..Len(seq) : seq[i] = seq[j] => i = j

\* C23: when create_note calls run concurrently against one backend, no two
\* calls derive the same top-level address, the persisted counter has
\* advanced by one for every call that wrote it back, and no call fails
\* with NoteAlreadyExists or with a storage error for a node that is
\* already there.
C23_DistinctTopLevelAddresses ==
    /\ NoRepeat(order)
    /\ StoredCounter.kind = "Ok" =>
          StoredCounter.value.properties.next_main_id = U32(0, Len(order) + 1)
    /\ op.name = "create_note" => res.kind = "Ok"

-----------------------------------------------------------------------------
(* Claims about mail (SpecMail) *)

Mailboxes(b, ns, es) == {x \in DOMAIN ns : get_mailbox(b, ns, es, x).kind = "Ok"}

Occurrences(mails, id) == Cardinality({i \in 1..Len(mails) : mails[i].id = id})

\* The mail is once in the inbox of `to` and once in the outbox of `from`,
\* and in no other inbox or outbox, in whatever order the store hands out
\* its edges.
InOneInboxAndOutbox(b, ns, es, id, from, to) ==
    \A m \in Mailboxes(b, ns, es) :
        /\ \A ord \in EdgeOrders(es, m, "sent_to") :
              Occurrences(get_mailbox_inbox(b, ns, es, ord, m).value, id)
                  = IF m = to THEN 1 ELSE 0
        /\ \A ord \in EdgeOrders(es, m, "sent_from") :
              Occurrences(get_mailbox_outbox(b, ns, es, ord, m).value, id)
                  = IF m = from THEN 1 ELSE 0

\* C29: after send_mail(from, to, ..) succeeds the new mail is unread and
\* is exactly once in get_mailbox_inbox(to) and exactly once in
\* get_mailbox_outbox(from), and in no other mailbox's inbox or outbox; if
\* either mailbox does not exist send_mail returns MailboxNotFound and
\* creates no mail node and no edge.
C29_SentMailInOneInboxAndOutbox ==
    [][op'.name = "send_mail" =>
          IF /\ get_mailbox(backend, nodes, edges, op'.from).kind = "Ok"
             /\ get_mailbox(backend, nodes, edges, op'.to).kind = "Ok"
          THEN /\ res'.kind = "Ok"
               /\ ~res'.value.read
               /\ get_mail(backend, nodes', edges', res'.value.id).kind = "Ok"
               /\ ~get_mail(backend, nodes', edges', res'.value.id).value.read
               /\ InOneInboxAndOutbox(backend, nodes', edges', res'.value.id, op'.from, op'.to)
          ELSE /\ res'.kind = "MailboxNotFound"
               /\ nodes' = nodes
               /\ edges' = edges]_vars

\* C29 witness: a second mail has gone from one mailbox to another one.
C29_Witness ==
    /\ op.name = "send_mail"
    /\ res.kind = "Ok"
    /\ op.from # op.to
    /\ Len(order) = 2
    /\ InOneInboxAndOutbox(backend, nodes, edges, res.value.id, op.from, op.to)

\* The mails sent to the mailbox, oldest first.
SentTo(ns, sent, mailbox_id) ==
    SelectSeq(sent, LAMBDA id : Mail_from_node(ns[id]).value.to_mailbox_id = mailbox_id)

Reverse(seq) == [i \in 1..Len(seq) |-> seq[Len(seq) + 1 - i]]

IdsOf(mails) == [i \in 1..Len(mails) |-> mails[i].id]

\* C30: get_mailbox_inbox returns the mails of the mailbox in the order of
\* sending, newest first, after any sequence of send_mail and
\* mark_mail_as_read calls: a mail marked as read keeps its position.
C30_InboxNewestFirst ==
    (op.name = "get_mailbox_inbox" /\ res.kind = "Ok") =>
        IdsOf(res.value) = Reverse(SentTo(nodes, order, op.id))

\* On the relational backend, where update_node leaves created_at alone,
\* the inbox is in the order of sending.
PgInboxNewestFirst == backend = "postgres" => C30_InboxNewestFirst

\* While nothing has been marked as read the inbox is in the order of
\* sending on both backends.
InboxNewestFirstWhileUnread ==
    (\A x \in DOMAIN nodes : nodes[x].node_type = "mail" => ~nodes[x].properties.read)
        => C30_InboxNewestFirst

\* The mails stored, as get_mail returns them.
StoredMails(b, ns, es) == {x \in DOMAIN ns : get_mail(b, ns, es, x).kind = "Ok"}

\* Some mail in the inbox of a mailbox the agent owns is unread.
HasUnread(b, ns, es, agent_id) ==
    \E o \in DOMAIN es, t \in DOMAIN es :
        /\ es[o].edge_type = "owns"
        /\ es[o].from_node_id = string_to_node_id(agent_id)
        /\ get_mailbox(b, ns, es, es[o].to_node_id).kind = "Ok"
        /\ es[t].edge_type = "sent_to"
        /\ es[t].to_node_id = es[o].to_node_id
        /\ es[t].from_node_id \in StoredMails(b, ns, es)
        /\ ~get_mail(b, ns, es, es[t].from_node_id).value.read

\* C31: a mail is unread when sent; after mark_mail_as_read(m) succeeds
\* get_mail(m) returns read = true, and no later call makes a read mail
\* unread, marking it again included; check_unread_mail reports has_unread
\* exactly when some mail in the inbox of one of the agent's mailboxes is
\* unread.
C31_ReadStaysRead ==
    [][/\ (op'.name = "send_mail" /\ res'.kind = "Ok") =>
             ~get_mail(backend, nodes', edges', res'.value.id).value.read
       /\ (op'.name = "mark_mail_as_read" /\ res'.kind = "Ok") =>
             /\ res'.value.read
             /\ get_mail(backend, nodes', edges', op'.id).value.read
       /\ \A m \in StoredMails(backend, nodes, edges) :
             get_mail(backend, nodes, edges, m).value.read =>
                /\ m \in StoredMails(backend, nodes', edges')
                /\ get_mail(backend, nodes', edges', m).value.read
       /\ (op'.name = "check_unread_mail" /\ res'.kind = "Ok") =>
             (res'.value.has_unread <=> HasUnread(backend, nodes', edges', op'.agent))]_vars

\* C31 witness: the agent's inbox holds a mail marked as read and an unread
\* one, and check_unread_mail has reported the unread one.
C31_Witness ==
    /\ op.name = "check_unread_mail"
    /\ res.kind = "Ok"
    /\ res.value.has_unread
    /\ Len(res.value.all_unread) = 1
    /\ \E m \in StoredMails(backend, nodes, edges) :
          /\ get_mail(backend, nodes, edges, m).value.read
          /\ \E t \in DOMAIN edges : \E o \in DOMAIN edges :
                /\ edges[t].edge_type = "sent_to" /\ edges[t].from_node_id = m
                /\ edges[o].edge_type = "owns" /\ edges[o].to_node_id = edges[t].to_node_id
                /\ edges[o].from_node_id = string_to_node_id(op.agent)

-----------------------------------------------------------------------------
(* Claims about concurrent mail calls (SpecMailConc) *)

InOutboxOf(b, ns, es, mailbox_id, id) ==
    /\ get_mailbox(b, ns, es, mailbox_id).kind = "Ok"
    /\ \A ord \in EdgeOrders(es, mailbox_id, "sent_from") :
          Occurrences(get_mailbox_outbox(b, ns, es, ord, mailbox_id).value, id) = 1

InNoInbox(b, ns, es, id) ==
    \A m \in Mailboxes(b, ns, es) : \A ord \in EdgeOrders(es, m, "sent_to") :
        Occurrences(get_mailbox_inbox(b, ns, es, ord, m).value, id) = 0

\* C32: send_mail is not atomic: when the recipient mailbox has been deleted
\* after send_mail created the mail node and before it creates the sent_to
\* edge, send_mail returns an error and the mail node stays stored, with its
\* sent_from edge if the sender's mailbox is still there, and in no inbox.
C32_SendMailNotAtomic ==
    [][\A c \in Caller :
          (/\ pc[c] = "send_mail:sent_to"
           /\ pc'[c] = "idle"
           /\ get_node(backend, nodes, edges, call[c].to).res.kind # "Ok") =>
              /\ res'.kind = "Storage"
              /\ call[c].mail.id \in DOMAIN nodes'
              /\ get_mail(backend, nodes', edges', call[c].mail.id).kind = "Ok"
              /\ InNoInbox(backend, nodes', edges', call[c].mail.id)
              /\ get_mailbox(backend, nodes', edges', call[c].from).kind = "Ok" =>
                    InOutboxOf(backend, nodes', edges', call[c].from, call[c].mail.id)]_vars

\* C32 witness: send_mail has returned an error and its mail is in the
\* sender's outbox and in no inbox.
C32_Witness ==
    /\ op.name = "send_mail"
    /\ res.kind = "Storage"
    /\ "mail" \in DOMAIN op
    /\ get_mail(backend, nodes, edges, op.mail.id).kind = "Ok"
    /\ InOutboxOf(backend, nodes, edges, op.from, op.mail.id)
    /\ InNoInbox(backend, nodes, edges, op.mail.id)

-----------------------------------------------------------------------------
(* Claims about schedules (SpecSchedule) *)

SameMinute(t, u) == MinuteStart(t) = MinuteStart(u)

ActionReturned(actions, row) == \E i \in 1..Len(actions) : actions[i] = row.action

\* C33: a schedule fires at most once per minute: a call of
\* check_and_fire_schedules does not return the action of a schedule that
\* an earlier call returned at a time of the same calendar minute, and no
\* schedule is in the list of firings twice for one minute.
C33_AtMostOncePerMinute ==
    [][op'.name = "check_and_fire_schedules" =>
          /\ \A s \in DOMAIN schedules :
                ActionReturned(res'.value, schedules[s]) =>
                   ~\E i \in 1..Len(order) :
                       order[i].id = s /\ SameMinute(order[i].time, op'.time)
          /\ \A i, j \in 1..Len(order') :
                (i # j /\ order'[i].id = order'[j].id)
                   => ~SameMinute(order'[i].time, order'[j].time)]_vars

\* C33 witness: a call finds an active schedule of the agent that fired
\* earlier in the minute, and does not return its action.
C33_Witness ==
    /\ op.name = "check_and_fire_schedules"
    /\ \E i \in 1..Len(order) :
          /\ schedules[order[i].id].agent_id = op.agent
          /\ schedules[order[i].id].is_active
          /\ SameMinute(order[i].time, op.time)
          /\ ~ActionReturned(res.value, schedules[order[i].id])

FiredInMinute(row, t) == row.last_fired_at.some /\ SameMinute(row.last_fired_at.value, t)

\* The schedule is active, has not fired in the minute of t, and its cron
\* expression has an occurrence in that minute, at its second `from` or
\* later.
DueFrom(row, t, from) ==
    /\ row.is_active
    /\ validate_cron(row.cron_expression).some
    /\ ~FiredInMinute(row, t)
    /\ \E u \in (MinuteStart(t) + from)..(MinuteStart(t) + 59) :
          Occurs(validate_cron(row.cron_expression).value, u)

\* C34: check_and_fire_schedules returns the action of every schedule of
\* the agent that is active, whose cron expression has an occurrence in the
\* minute of current_time, second 0 included, and that has not fired in that
\* minute; it never returns the action of an inactive schedule.
C34_FiresEveryDueSchedule ==
    [][op'.name = "check_and_fire_schedules" =>
          \A s \in DOMAIN schedules :
              schedules[s].agent_id = op'.agent =>
                 /\ DueFrom(schedules[s], op'.time, 0) => ActionReturned(res'.value, schedules[s])
                 /\ ~schedules[s].is_active => ~ActionReturned(res'.value, schedules[s])]_vars

\* With an occurrence later than second 0 of the minute the due schedule is
\* returned, and an inactive one never is.
FiresEveryScheduleDueAfterSecondZero ==
    [][op'.name = "check_and_fire_schedules" =>
          \A s \in DOMAIN schedules :
              schedules[s].agent_id = op'.agent =>
                 /\ DueFrom(schedules[s], op'.time, 1) => ActionReturned(res'.value, schedules[s])
                 /\ ~schedules[s].is_active => ~ActionReturned(res'.value, schedules[s])]_vars

\* A schedule whose expression has five fields is never returned.
FiveFieldsNeverFire ==
    \A i \in 1..Len(order) : Len(schedules[order[i].id].cron_expression) # 5

-----------------------------------------------------------------------------
(* Claims about relation discovery (SpecRelated) *)

\* The stored nodes at most k hops from start, along edges taken either way.
RECURSIVE WithinHops(_, _)
WithinHops(start, k) ==
    IF k = 0 THEN {start}
    ELSE With(WithinHops(start, k - 1),
              LAMBDA near :
                  near \cup {id \in DOMAIN nodes :
                                \E x \in DOMAIN edges :
                                    \/ edges[x].from_node_id \in near /\ edges[x].to_node_id = id
                                    \/ edges[x].to_node_id \in near /\ edges[x].from_node_id = id})

\* C35: related(node, 0) is empty; related(node, k) lists each node it found
\* once, never the start node and never a node more than k hops away, and it
\* finds the nodes that edges lead to in either direction: every stored node
\* within k hops of the start.
C35_BoundedRelated ==
    (op.name = "related") =>
        /\ res.kind = "Ok"
        /\ op.depth = 0 => res.value = <<>>
        /\ NoRepeat(res.value)
        /\ \A i \in 1..Len(res.value) : res.value[i].id # op.id
        /\ {res.value[i].id : i \in 1..Len(res.value)}
              = WithinHops(op.id, op.depth) \ {op.id}
        /\ \A i \in 1..Len(res.value) : res.value[i] = nodes[res.value[i].id]

\* C35 witness: a call with a depth above 0 returns a node found against the
\* direction of its edge, and leaves out a stored node that is further away.
C35_Witness ==
    /\ op.name = "related"
    /\ op.depth > 0
    /\ \E i \in 1..Len(res.value) :
          /\ \E x \in DOMAIN edges :
                edges[x].from_node_id = res.value[i].id /\ edges[x].to_node_id = op.id
          /\ ~\E x \in DOMAIN edges :
                edges[x].to_node_id = res.value[i].id /\ edges[x].from_node_id = op.id
    /\ \E id \in DOMAIN nodes :
          /\ id \in WithinHops(op.id, MaxRelated) \ WithinHops(op.id, op.depth)
          /\ \A i \in 1..Len(res.value) : res.value[i].id # id

-----------------------------------------------------------------------------
(* Claims about the locks of the in-process backend (SpecLocks) *)

HoldsLock(c, lock) == c \in lock.readers \cup lock.writer

\* Caller c is suspended at an acquisition of `lock` that another caller's
\* guard keeps from succeeding.
WaitsForNodes(c) ==
    /\ pc[c] = "get_neighbors:nodes.read"
    /\ ~CanRead(nodesLock)

WaitsForEdges(c) ==
    \/ pc[c] = "delete_node:edges.write" /\ ~CanWrite(edgesLock)
    \/ pc[c] = "create_edge:edges.write" /\ ~CanWrite(edgesLock)

\* C36: no reachable state has two callers each holding one of the two
\* locks and waiting for the other: the in-process backend never deadlocks.
C36_NoDeadlock ==
    ~\E c, d \in Caller :
        /\ HoldsLock(c, nodesLock) /\ WaitsForEdges(c)
        /\ HoldsLock(d, edgesLock) /\ WaitsForNodes(d)

\* Every call that has begun returns.
EveryCallReturns == \A c \in Caller : (pc[c] # "idle") ~> (pc[c] = "idle")

\* Without get_neighbors no caller waits while it holds a lock that another
\* waits for.
NoDeadlockWithoutGetNeighbors ==
    ~\E c, d \in Caller :
        /\ HoldsLock(c, nodesLock) /\ WaitsForEdges(c)
        /\ HoldsLock(d, edgesLock)

-----------------------------------------------------------------------------
(* Claims about concurrent create_node calls (SpecCreate) *)

\* The calls with identifier id that returned Ok, by their place in `order`.
Succeeded(id) ==
    {i \in 1..Len(order) : order[i].node.id = id /\ order[i].res.kind = "Ok"}

\* C37: of the create_node calls made concurrently with one identifier on
\* the in-process backend exactly one succeeds, every other one returns an
\* error, and the stored node is the one the successful call passed.
C37_OneCreateSucceeds ==
    \A id \in NodeId :
        /\ Cardinality(Succeeded(id))
              = IF \E i \in 1..Len(order) : order[i].node.id = id THEN 1 ELSE 0
        /\ HasKey(nodes, id) <=> Succeeded(id) # {}
        /\ \A i \in Succeeded(id) :
              nodes[id] = order[i].node /\ order[i].res = Ok(order[i].node)
        /\ \A i \in 1..Len(order) :
              (order[i].node.id = id /\ i \notin Succeeded(id))
                 => order[i].res = ConstraintViolation

\* C37 witness: two calls with one identifier and different nodes were both
\* suspended at the lock; one returned Ok and the other an error.
C37_Witness ==
    \E i, j \in 1..Len(order) :
        /\ i < j
        /\ order[i].node.id = order[j].node.id
        /\ order[i].node # order[j].node
        /\ order[i].suspended # {}
        /\ order[i].res.kind = "Ok"
        /\ order[j].res.kind # "Ok"
        /\ nodes[order[i].node.id] = order[i].node

-----------------------------------------------------------------------------
(* Claims about search_mail (SpecMailSearch) *)

\* How many stored mails match the filter of the call.
MatchingMails(after) ==
    Cardinality({x \in StoredMailIds :
                    after.some => nodes[x].created_at >= after.value})

\* C38: search_mail(limit = L) returns at most L mails, and has_more is true
\* exactly when more than L mails match the filter, as when L + 1 match.
C38_HasMoreBeyondLimit ==
    (op.name = "search_mail") =>
        /\ Len(res.value.mails) <= op.limit
        /\ res.value.has_more <=> MatchingMails(op.after) > op.limit

\* At most L mails are returned, the newest ones, and has_more is true
\* exactly when more than L + 1 mails match.
HasMoreBeyondLimitPlusOne ==
    (op.name = "search_mail") =>
        /\ Len(res.value.mails) = Min(op.limit, MatchingMails(op.after))
        /\ res.value.total_count = MatchingMails(op.after)
        /\ res.value.has_more <=> MatchingMails(op.after) > op.limit + 1

-----------------------------------------------------------------------------
(* Claims about the address of an index note (SpecKb) *)

\* The note create_index returned is a direct child of parent_id, and so
\* not at a top-level address.
IsChildIndex(parent_id, r) ==
    /\ parent(r.value.id) = Some(parent_id)
    /\ level(r.value.id) > 1

\* C39: the index note that create_index(parent) creates is a direct child
\* of parent, whether the parent's address ends in a letter or in a number,
\* so it is never at an address the top-level numbering of create_note
\* generates.
C39_IndexIsChildOfParent ==
    [][(op'.name = "create_index" /\ res'.kind = "Ok")
          => IsChildIndex(op'.id, res')]_vars

\* The index of a parent whose address ends in a letter is its direct child.
IndexIsChildAfterLetter ==
    [][(/\ op'.name = "create_index" /\ res'.kind = "Ok"
        /\ Last(op'.id.parts).kind = "Letter")
          => IsChildIndex(op'.id, res')]_vars

\* The index of a parent whose address ends in a number is no child of it:
\* it is at the address of the number times ten, next to the parent.
IndexIsSiblingAfterNumber ==
    [][(/\ op'.name = "create_index" /\ res'.kind = "Ok"
        /\ Last(op'.id.parts).kind = "Number")
          => /\ level(res'.value.id) = level(op'.id)
             /\ parent(res'.value.id) = parent(op'.id)]_vars

====
